---- MODULE Spec2Model ----
(***************************************************************************)
(* Maze-chase game of src/python/run.py (App.update and what it calls).    *)
(*                                                                         *)
(* Lengths and speeds are fixed-point integers: one pixel is PX units, so  *)
(* that base_speed (0.1 px), the per-frame acceleration (6.4/150 px) and   *)
(* the powered threshold (1.95 px) are all whole numbers of units.         *)
(* Grid coordinates are 0-based as in the source; a grid is a sequence of  *)
(* rows, so cell (x, y) is map[y + 1][x + 1].                              *)
(***************************************************************************)
EXTENDS Integers, Sequences, FiniteSets, TLC

VARIABLES map_data, player, enemies, particles, stage_clear_timer,
          proliferation_timer, frames, last, probe, touch_controller,
          tet_game, tet_gameB

vars == <<map_data, player, enemies, particles, stage_clear_timer,
          proliferation_timer, frames, last, probe, touch_controller,
          tet_game, tet_gameB>>

----------------------------------------------------------------------------
(* Program constants                                                       *)

fps == 30
acceleration_time == 5
frames_needed == acceleration_time * fps
\* units per pixel: a multiple of 10 (base_speed), of frames_needed
\* (acceleration) and of 1000 (sine samples)
PX == 50 * frames_needed
tile_size == 16
TILE == tile_size * PX

Abs(v) == IF v < 0 THEN -v ELSE v
Min(a, b) == IF a < b THEN a ELSE b
Max(a, b) == IF a > b THEN a ELSE b

----------------------------------------------------------------------------
(* Maze generator: generate_maze, generate_map_data                        *)

WallGrid(cols, rows) == [y \in 1..rows |-> [x \in 1..cols |-> 1]]
Cell(maze, x, y) == maze[y + 1][x + 1]
SetCell(maze, x, y, v) ==
    [r \in DOMAIN maze |->
       [c \in DOMAIN maze[r] |-> IF r = y + 1 /\ c = x + 1 THEN v ELSE maze[r][c]]]

directions == {<<0, -2>>, <<2, 0>>, <<0, 2>>, <<-2, 0>>}

\* the test of line 59 for direction d at cell (cx, cy)
CanCarve(maze, cols, rows, cx, cy, d) ==
    LET nx == cx + d[1]
        ny == cy + d[2]
    IN  /\ 0 < nx /\ nx < cols - 1
        /\ 0 < ny /\ ny < rows - 1
        /\ Cell(maze, nx, ny) = 1

\* faulty variant of Carve: the cell in between stays a wall
CarveFarCellOnly(maze, cx, cy, d) == SetCell(maze, cx + d[1], cy + d[2], 0)

\* lines 60-61: open the cell in between and the cell two steps away
Carve(maze, cx, cy, d) ==
    SetCell(SetCell(maze, cx + d[1] \div 2, cy + d[2] \div 2, 0),
            cx + d[1], cy + d[2], 0)

\* Every grid the for-loop of carve_passages can leave behind when the
\* directions in `todo` are still to be tried at (cx, cy), over all orders
\* random.shuffle can produce.  A direction whose test fails leaves the grid
\* alone and keeps failing, so only the order of the passing ones matters.
RECURSIVE carve_passages(_, _, _, _, _, _)
carve_passages(maze, cols, rows, cx, cy, todo) ==
    LET open == {d \in todo : CanCarve(maze, cols, rows, cx, cy, d)}
    IN  IF open = {} THEN {maze}
        ELSE UNION {
               UNION { carve_passages(m, cols, rows, cx, cy, todo \ {d})
                       : m \in carve_passages(Carve(maze, cx, cy, d), cols, rows,
                                              cx + d[1], cy + d[2], directions) }
               : d \in open }

\* faulty variant of ForceMidRow: the border cells of the row are opened too
ForceWholeMidRow(maze, cols, rows) ==
    [y \in 1..rows |-> [x \in 1..cols |-> IF y = rows \div 2 + 1 THEN 0 ELSE maze[y][x]]]

\* lines 67-69: the middle row, columns 1 .. cols - 2
ForceMidRow(maze, cols, rows) ==
    LET mid_row == rows \div 2
    IN  [y \in 1..rows |->
           [x \in 1..cols |->
              IF y = mid_row + 1 /\ x - 1 >= 1 /\ x - 1 < cols - 1
              THEN 0 ELSE maze[y][x]]]

generate_maze(cols, rows) ==
    { ForceMidRow(m, cols, rows)
      : m \in carve_passages(SetCell(WallGrid(cols, rows), 1, 1, 0),
                             cols, rows, 1, 1, directions) }

generate_map_data(screen_width, screen_height, tsize) ==
    LET c0 == screen_width \div tsize
        r0 == screen_height \div tsize
        cols == IF c0 % 2 = 0 THEN c0 - 1 ELSE c0
        rows == IF r0 % 2 = 0 THEN r0 - 1 ELSE r0
    IN  generate_maze(cols, rows)

Cols(map) == Len(map[1])
Rows(map) == Len(map)

\* find_valid_position: the pixel centres of the passage cells
valid_positions(map) ==
    { <<x, y>> \in (0..Cols(map) - 1) \X (0..Rows(map) - 1) : Cell(map, x, y) = 0 }

find_valid_position(map) ==
    { <<c[1] * TILE + (tile_size \div 2) * PX, c[2] * TILE + (tile_size \div 2) * PX>>
      : c \in valid_positions(map) }

----------------------------------------------------------------------------
(* Collision probe: App.is_wall, App.can_move_to, App.check_collision      *)

\* faulty variant of is_wall: tiles outside the grid count as open
is_wall_open_outside(map, grid_x, grid_y) ==
    IF 0 <= grid_x /\ grid_x < Cols(map) /\ 0 <= grid_y /\ grid_y < Rows(map)
    THEN Cell(map, grid_x, grid_y) = 1
    ELSE FALSE

is_wall(map, grid_x, grid_y) ==
    IF 0 <= grid_x /\ grid_x < Cols(map) /\ 0 <= grid_y /\ grid_y < Rows(map)
    THEN Cell(map, grid_x, grid_y) = 1
    ELSE TRUE

\* corners + mid_points of lines 431-446; half_size is in pixels
check_points(x, y, half_size) ==
    LET h == half_size * PX
    IN  << <<x - h, y - h>>, <<x + h, y - h>>, <<x - h, y + h>>, <<x + h, y + h>>,
           <<x, y - h>>, <<x + h, y>>, <<x, y + h>>, <<x - h, y>> >>

can_move_to(map, x, y, half_size) ==
    LET pts == check_points(x, y, half_size)
    IN  ~ \E i \in 1..Len(pts) : is_wall(map, pts[i][1] \div TILE, pts[i][2] \div TILE)

check_collision(x1, y1, x2, y2) ==
    Abs(x1 - x2) < 4 * PX /\ Abs(y1 - y2) < 4 * PX

----------------------------------------------------------------------------
(* Arithmetic helpers standing for the float operations of the source      *)

\* v * num / den for num, den > 0; float products are symmetric in the sign
Scale(v, num, den) ==
    IF v >= 0 THEN (v * num) \div den ELSE -(((-v) * num) \div den)

\* the integer square root of n, known to lie in lo .. hi
RECURSIVE ISqrtIn(_, _, _)
ISqrtIn(n, lo, hi) ==
    IF lo >= hi THEN lo
    ELSE LET mid == (lo + hi + 1) \div 2
         IN  IF mid * mid <= n THEN ISqrtIn(n, mid, hi) ELSE ISqrtIn(n, lo, mid - 1)

\* math.sqrt(dx * dx + dy * dy) for components given in thousandths
Length(dx, dy) ==
    IF dy = 0 THEN Abs(dx)
    ELSE IF dx = 0 THEN Abs(dy)
    ELSE ISqrtIn(dx * dx + dy * dy, Max(Abs(dx), Abs(dy)), Abs(dx) + Abs(dy))

\* math.sin in thousandths, of an angle in hundredths of a radian (Bhaskara's
\* rational approximation on a half period; 2 pi is taken as 6.28)
HalfSine(x) == (1000 * 16 * x * (314 - x)) \div (492980 - 4 * x * (314 - x))
Sine(a) ==
    LET x == a % 628
    IN  IF x <= 314 THEN HalfSine(x) ELSE -HalfSine(x - 314)
Cosine(a) == Sine(a + 157)

----------------------------------------------------------------------------
(* Player: __init__, reset_power_state, update                             *)

base_speed == PX \div 10
max_speed == base_speed * 65
powerd_speed == (max_speed * 3) \div 10
acceleration == (max_speed - base_speed) \div frames_needed
MAX_WALL_HITS == 2
WALL_BOUNCE == 4
KILL_BOOST_DURATION == 30
\* wave_amplitude 0.2 px and speed_wave_factor 1.5
player_wave_amplitude == (2 * PX) \div 10

\* faulty variant of is_powered: compares base_speed, not current_speed
is_powered_by_base(current_speed) == base_speed >= powerd_speed

\* the test `current_speed >= powerd_speed` of lines 230, 550, 582, 614
is_powered(current_speed) == current_speed >= powerd_speed

\* faulty variant of reset_power_state: wall_hits and kill_boost_timer stay
reset_speed_only(p) == [p EXCEPT !.current_speed = base_speed]

\* Player.reset_power_state, lines 209-212
reset_power_state(p) ==
    [p EXCEPT !.current_speed = base_speed, !.wall_hits = 0, !.kill_boost_timer = 0]

\* faulty variants of accelerate: no clamp; restart from base_speed
accelerate_unclamped(current_speed) == current_speed + acceleration

accelerate_from_base(current_speed) == Min(base_speed + acceleration, max_speed)

\* line 229
accelerate(current_speed) == Min(current_speed + acceleration, max_speed)

\* faulty variant of idle_speed: the speed is kept while idle
idle_speed_kept(current_speed) == current_speed

\* line 245
idle_speed(current_speed) == base_speed

\* Player.update(dx, dy): the input components are in thousandths; the result
\* is the player after the call and the displacement it returns
PlayerUpdate(p, dx, dy) ==
    LET boost == IF p.kill_boost_timer > 0 THEN p.kill_boost_timer - 1
                 ELSE p.kill_boost_timer
        is_moving == dx # 0 \/ dy # 0
    IN  IF is_moving
        THEN LET length == Length(dx, dy)
                 ndx == Scale(dx, p.current_speed, length)
                 ndy == Scale(dy, p.current_speed, length)
                 speed == accelerate(p.current_speed)
                 amp == player_wave_amplitude
                        + (player_wave_amplitude * 3 * (speed - powerd_speed))
                          \div (2 * (max_speed - powerd_speed))
                 wave == Scale(Sine(p.wave_time), amp, 1000)
                 px_dominant == Abs(ndx) > Abs(ndy)
             IN  IF is_powered(speed)
                 THEN [p |-> [p EXCEPT !.kill_boost_timer = boost,
                                       !.current_speed = speed,
                                       !.wave_time = (p.wave_time + 20) % 628],
                       dx |-> IF px_dominant THEN ndx ELSE ndx + wave,
                       dy |-> IF px_dominant THEN ndy + wave ELSE ndy]
                 ELSE [p |-> [p EXCEPT !.kill_boost_timer = boost,
                                       !.current_speed = speed],
                       dx |-> ndx, dy |-> ndy]
        ELSE [p |-> [p EXCEPT !.kill_boost_timer = boost,
                              !.current_speed = idle_speed(p.current_speed)],
              dx |-> 0, dy |-> 0]

----------------------------------------------------------------------------
(* Particle: __init__, check_enemy_collision, update                       *)

PARTICLE_LIFE == 50
particle_half_size == 1
character_half_size == 2

Particle(x, y, angle, speed, is_spark) ==
    [x |-> x, y |-> y,
     dx |-> Scale(Cosine(angle), speed, 1000),
     dy |-> Scale(Sine(angle), speed, 1000),
     life |-> PARTICLE_LIFE, is_spark |-> is_spark,
     wall_hits |-> IF is_spark THEN 0 ELSE -1]

\* faulty variant of ParticleUpdate: a spark leaves only by its life or by
\* the hard cap of 8 wall contacts
ParticleUpdateHardCapOnly(map, q) ==
    IF q.wall_hits < 0
    THEN LET q1 == [q EXCEPT !.x = q.x + q.dx, !.y = q.y + q.dy, !.life = q.life - 1]
         IN  [q |-> q1, keep |-> q1.life > 0]
    ELSE LET new_x == q.x + q.dx
             new_y == q.y + q.dy
         IN  IF can_move_to(map, new_x, new_y, particle_half_size)
             THEN LET q1 == [q EXCEPT !.x = new_x, !.y = new_y, !.life = q.life - 1]
                  IN  [q |-> q1, keep |-> q1.life > 0]
             ELSE LET hits == q.wall_hits + 1
                      ndx == IF ~can_move_to(map, new_x, q.y, particle_half_size)
                             THEN -q.dx ELSE q.dx
                      ndy == IF ~can_move_to(map, q.x, new_y, particle_half_size)
                             THEN -q.dy ELSE q.dy
                  IN  IF hits >= 8
                      THEN [q |-> [q EXCEPT !.wall_hits = hits], keep |-> FALSE]
                      ELSE LET q1 == [q EXCEPT !.wall_hits = hits, !.dx = ndx,
                                               !.dy = ndy, !.life = q.life - 1]
                           IN  [q |-> q1, keep |-> q1.life > 0]

\* Particle.update: the particle after the call and whether it is kept
ParticleUpdate(map, q) ==
    IF q.wall_hits < 0
    THEN LET q1 == [q EXCEPT !.x = q.x + q.dx, !.y = q.y + q.dy, !.life = q.life - 1]
         IN  [q |-> q1, keep |-> q1.life > 0]
    ELSE LET new_x == q.x + q.dx
             new_y == q.y + q.dy
         IN  IF can_move_to(map, new_x, new_y, particle_half_size)
             THEN LET q1 == [q EXCEPT !.x = new_x, !.y = new_y, !.life = q.life - 1]
                  IN  [q |-> q1, keep |-> q1.life > 0 /\ q1.wall_hits < 2]
             ELSE LET hits == q.wall_hits + 1
                      ndx == IF ~can_move_to(map, new_x, q.y, particle_half_size)
                             THEN -q.dx ELSE q.dx
                      ndy == IF ~can_move_to(map, q.x, new_y, particle_half_size)
                             THEN -q.dy ELSE q.dy
                  IN  IF hits >= 8
                      THEN [q |-> [q EXCEPT !.wall_hits = hits], keep |-> FALSE]
                      ELSE LET q1 == [q EXCEPT !.wall_hits = hits, !.dx = ndx,
                                               !.dy = ndy, !.life = q.life - 1]
                           IN  [q |-> q1, keep |-> q1.life > 0 /\ q1.wall_hits < 2]

\* App.create_death_effect: eight particles, 45 degrees apart, speed 2.0
death_effect(x, y) ==
    [i \in 1..8 |-> Particle(x, y, ((i - 1) * 314) \div 4, 2 * PX, FALSE)]

\* App.create_spark_effect: three sparks at the given angles
spark_effect(x, y, speed, angles) ==
    [i \in 1..3 |-> Particle(x, y, angles[i], speed, TRUE)]

----------------------------------------------------------------------------
(* App.update, lines 487-547: the movement step                            *)

\* faulty variant of MoveStep: the move is made without asking can_move_to
MoveStepUnchecked(map, x, y, dx, dy) ==
    [x |-> x + dx, y |-> y + dy, full |-> TRUE, moved |-> FALSE]

\* The player's position after the move attempts for displacement (dx, dy)
\* from (x, y): full tells whether the whole move succeeded, moved whether a
\* slide sub-move did.
MoveStep(map, x, y, dx, dy) ==
    LET cm(px, py) == can_move_to(map, px, py, character_half_size)
        can_move_x == cm(x + dx, y)
        can_move_y == cm(x, y + dy)
        \* abs(norm_dx) > abs(norm_dy), both being dx and dy over one strength
        x_dominant == Abs(dx) > Abs(dy)
        diag_x == x + Scale(dx, 7, 10)
        diag_y == y + Scale(dy, 7, 10)
        diag_ok == can_move_x /\ can_move_y /\ cm(diag_x, diag_y)
        main_x == x + Scale(dx, 85, 100)
        main_y == y + Scale(dy, 85, 100)
        half_x == x + Scale(dx, 5, 10)
        half_y == y + Scale(dy, 5, 10)
    IN  IF cm(x + dx, y + dy)
        THEN [x |-> x + dx, y |-> y + dy, full |-> TRUE, moved |-> FALSE]
        ELSE IF diag_ok
        THEN [x |-> diag_x, y |-> diag_y, full |-> FALSE, moved |-> TRUE]
        ELSE IF x_dominant
        THEN IF can_move_x /\ cm(main_x, y)
             THEN [x |-> main_x,
                   y |-> IF can_move_y /\ cm(main_x, half_y) THEN half_y ELSE y,
                   full |-> FALSE, moved |-> TRUE]
             ELSE [x |-> x, y |-> y, full |-> FALSE, moved |-> FALSE]
        ELSE IF can_move_y /\ cm(x, main_y)
             THEN [x |-> IF can_move_x /\ cm(half_x, main_y) THEN half_x ELSE x,
                   y |-> main_y,
                   full |-> FALSE, moved |-> TRUE]
             ELSE [x |-> x, y |-> y, full |-> FALSE, moved |-> FALSE]

\* variant of hit_wall: set only when no slide sub-move succeeded
hit_wall_only_if_stuck(m) == ~m.full /\ ~m.moved

\* hit_wall as line 549 reads it: set at line 500 whenever the whole move
\* failed, whatever the slide did
hit_wall(m) == ~m.full

\* variant of damp: no floor of 3 * base_speed
damp_without_floor(current_speed) == (current_speed * 9) \div 10

\* lines 570-574
damp(current_speed) == Max(base_speed * 3, (current_speed * 9) \div 10)

\* faulty variant of WallHit: the count of powered hits is never acted on
WallHitWithoutReset(map, p, m, dx, dy) ==
    LET p0 == [p EXCEPT !.x = m.x, !.y = m.y]
    IN  IF ~hit_wall(m) THEN p0
        ELSE IF is_powered(p0.current_speed)
        THEN LET hits == IF p0.kill_boost_timer <= 0 THEN p0.wall_hits + 1
                         ELSE p0.wall_hits
                 bounce_x == -dx * WALL_BOUNCE
                 bounce_y == -dy * WALL_BOUNCE
                 ok == can_move_to(map, m.x + bounce_x, m.y + bounce_y,
                                   character_half_size)
             IN  [p0 EXCEPT !.wall_hits = hits,
                            !.x = IF ok THEN m.x + bounce_x ELSE m.x,
                            !.y = IF ok THEN m.y + bounce_y ELSE m.y]
        ELSE [p0 EXCEPT !.current_speed = damp(p0.current_speed)]

\* faulty variant of WallHit: a powered hit counts whatever kill_boost_timer is
WallHitBoostIgnored(map, p, m, dx, dy) ==
    LET p0 == [p EXCEPT !.x = m.x, !.y = m.y]
    IN  IF ~hit_wall(m) THEN p0
        ELSE IF is_powered(p0.current_speed)
        THEN LET bounce_x == -dx * WALL_BOUNCE
                 bounce_y == -dy * WALL_BOUNCE
                 ok == can_move_to(map, m.x + bounce_x, m.y + bounce_y,
                                   character_half_size)
                 p1 == [p0 EXCEPT !.wall_hits = p0.wall_hits + 1,
                                  !.x = IF ok THEN m.x + bounce_x ELSE m.x,
                                  !.y = IF ok THEN m.y + bounce_y ELSE m.y]
             IN  IF p1.wall_hits >= MAX_WALL_HITS
                 THEN reset_power_state(p1)
                 ELSE p1
        ELSE [p0 EXCEPT !.current_speed = damp(p0.current_speed)]

\* lines 549-574: the player after the wall-hit handling, standing at the
\* position m the movement step left; (dx, dy) is the frame's displacement
WallHit(map, p, m, dx, dy) ==
    LET p0 == [p EXCEPT !.x = m.x, !.y = m.y]
    IN  IF ~hit_wall(m) THEN p0
        ELSE IF is_powered(p0.current_speed)
        THEN LET hits == IF p0.kill_boost_timer <= 0 THEN p0.wall_hits + 1
                         ELSE p0.wall_hits
                 bounce_x == -dx * WALL_BOUNCE
                 bounce_y == -dy * WALL_BOUNCE
                 ok == can_move_to(map, m.x + bounce_x, m.y + bounce_y,
                                   character_half_size)
                 p1 == [p0 EXCEPT !.wall_hits = hits,
                                  !.x = IF ok THEN m.x + bounce_x ELSE m.x,
                                  !.y = IF ok THEN m.y + bounce_y ELSE m.y]
             IN  IF p1.wall_hits >= MAX_WALL_HITS /\ p1.kill_boost_timer <= 0
                 THEN reset_power_state(p1)
                 ELSE p1
        ELSE [p0 EXCEPT !.current_speed = damp(p0.current_speed)]

----------------------------------------------------------------------------
(* Model bounds, and the samples the random draws are taken from           *)

\* the source's 240 x 340 screen, 250 and 30 enemies, scaled down
screen_width == 48
screen_height == 48
max_enemies == 4
initial_enemies == 2
\* update calls outside the stage-clear countdown that a run may hold
MaxFrames == 1

\* random.randint(0, 3) (left, right, up, down), sampled: right, down
random_direction == {1, 3}
\* random.randint(30, 90), sampled
random_direction_timer == {30}
\* random.uniform(0, 6.28) in hundredths of a radian, sampled
random_wave_offset == {0}
\* random.uniform(0, math.pi * 2) in hundredths of a radian, sampled
random_spark_angle == {0, 393}
\* the three draws of one create_spark_effect call, sampled: the first spark
\* flies at angle 0, the other two share their angle
random_spark_angles == { <<0, a, a>> : a \in random_spark_angle }
\* The draws one Enemy.__init__ or Enemy.update call makes.  One update call
\* of the game hands the same draws to every enemy it touches: the runs in
\* which the draws of a frame differ from enemy to enemy are not explored.
random_draws ==
    [direction : random_direction, direction_timer : random_direction_timer,
     wave_offset : random_wave_offset]

----------------------------------------------------------------------------
(* Enemy: __init__, update                                                 *)

\* speed 0.8 px and wave_amplitude 0.3 px
enemy_speed == (8 * PX) \div 10
enemy_wave_amplitude == (3 * PX) \div 10
MULTIPLY_COOLDOWN == 150

\* Enemy(x, y) with random draws r; phase stands for time + wave_offset
Enemy(x, y, r) ==
    [x |-> x, y |-> y, direction |-> r.direction,
     direction_timer |-> r.direction_timer, phase |-> r.wave_offset,
     multiply_cooldown |-> 0]

\* Enemy.update with random draws r
EnemyUpdate(map, e, r) ==
    LET cooldown == IF e.multiply_cooldown > 0 THEN e.multiply_cooldown - 1
                    ELSE e.multiply_cooldown
        wave == Scale(Sine(e.phase), enemy_wave_amplitude, 1000)
        dx == CASE e.direction = 0 -> -enemy_speed
                [] e.direction = 1 -> enemy_speed
                [] OTHER -> wave
        dy == CASE e.direction = 2 -> -enemy_speed
                [] e.direction = 3 -> enemy_speed
                [] OTHER -> wave
        new_x == e.x + dx
        new_y == e.y + dy
        ok == can_move_to(map, new_x, new_y, character_half_size)
        timer == e.direction_timer - 1
        e1 == [e EXCEPT !.multiply_cooldown = cooldown,
                        !.x = IF ok THEN new_x ELSE e.x,
                        !.y = IF ok THEN new_y ELSE e.y,
                        !.phase = (e.phase + 10) % 628,
                        !.direction_timer = timer]
    IN  IF timer <= 0
        THEN [e1 EXCEPT !.direction = r.direction,
                        !.direction_timer = r.direction_timer,
                        !.phase = r.wave_offset]
        ELSE IF ~ok
        THEN [e1 EXCEPT !.direction = r.direction,
                        !.phase = (r.wave_offset + 10) % 628]
        ELSE e1

\* the sequences made of one element of each set of the sequence `sets`
RECURSIVE SeqsOf(_)
SeqsOf(sets) ==
    IF sets = <<>> THEN {<<>>}
    ELSE { <<h>> \o t : h \in Head(sets), t \in SeqsOf(Tail(sets)) }

\* faulty variant of offspring_count: always two below the cap
offspring_count_two(total_enemies, cooldown) ==
    IF total_enemies < max_enemies /\ cooldown = 0 THEN 2 ELSE 0

\* lines 590-596: how many offspring a touched enemy spawns
offspring_count(total_enemies, cooldown) ==
    IF total_enemies < max_enemies /\ cooldown = 0
    THEN Cardinality({k \in 0..1 : total_enemies + k < max_enemies})
    ELSE 0

\* lines 581-600 for one enemy e (already updated), with random draws r:
\* every state the pass can be in after it, over the cells the offspring
\* get.  acc holds remaining_enemies, self.particles, the player's
\* kill_boost_timer, collision_occurred and the tallies the properties read.
TouchEnemy(map, p, total_enemies, e, acc, r) ==
    IF ~check_collision(p.x, p.y, e.x, e.y)
    THEN {[acc EXCEPT !.remaining = Append(@, e)]}
    ELSE IF is_powered(p.current_speed)
    THEN {[acc EXCEPT !.particles = @ \o death_effect(e.x, e.y),
                      !.kill_boost_timer = KILL_BOOST_DURATION,
                      !.overlaps = @ + 1, !.kills = @ + 1]}
    ELSE LET n == offspring_count(total_enemies, e.multiply_cooldown)
             spawn == e.multiply_cooldown = 0 /\ total_enemies < max_enemies
             born == SeqsOf([k \in 1..n |->
                        { Enemy(c[1], c[2], r) : c \in find_valid_position(map) }])
         IN  { [acc EXCEPT !.remaining =
                             @ \o b \o <<[e EXCEPT !.direction = r.direction,
                                                   !.multiply_cooldown =
                                                      IF spawn THEN MULTIPLY_COOLDOWN
                                                      ELSE @]>>,
                           !.collision_occurred = TRUE,
                           !.overlaps = @ + 1, !.bumps = @ + 1,
                           !.spawned = @ + n]
               : b \in born }

\* faulty variant of EnemyPass: the overlap with the player is tested
\* without the call of Enemy.update
RECURSIVE EnemyPassUnmoved(_, _, _, _, _, _)
EnemyPassUnmoved(map, p, es, i, acc, r) ==
    IF i > Len(es) THEN {acc}
    ELSE UNION { EnemyPassUnmoved(map, p, es, i + 1, a, r)
                 : a \in TouchEnemy(map, p, Len(es), es[i], acc, r) }

\* the enemy loop of lines 579-600 from index i on
RECURSIVE EnemyPass(_, _, _, _, _, _)
EnemyPass(map, p, es, i, acc, r) ==
    IF i > Len(es) THEN {acc}
    ELSE UNION { EnemyPass(map, p, es, i + 1, a, r)
                 : a \in TouchEnemy(map, p, Len(es), EnemyUpdate(map, es[i], r),
                                    acc, r) }

----------------------------------------------------------------------------
(* App.update, lines 602-633: particle pass and periodic proliferation     *)

\* faulty variant of spark_hits: a particle of either kind kills
any_particle_hits(q, e) ==
    Abs(q.x - e.x) < 4 * PX /\ Abs(q.y - e.y) < 4 * PX

\* Particle.check_enemy_collision: does particle q kill enemy e
spark_hits(q, e) ==
    q.is_spark /\ Abs(q.x - e.x) < 4 * PX /\ Abs(q.y - e.y) < 4 * PX

RECURSIVE KilledBy(_, _)
KilledBy(q, es) ==
    IF es = <<>> THEN <<>>
    ELSE IF spark_hits(q, Head(es)) THEN <<Head(es)>> \o KilledBy(q, Tail(es))
    ELSE KilledBy(q, Tail(es))

RECURSIVE Survivors(_, _)
Survivors(q, es) ==
    IF es = <<>> THEN <<>>
    ELSE IF spark_hits(q, Head(es)) THEN Survivors(q, Tail(es))
    ELSE <<Head(es)>> \o Survivors(q, Tail(es))

RECURSIVE DeathEffects(_)
DeathEffects(es) ==
    IF es = <<>> THEN <<>>
    ELSE death_effect(Head(es).x, Head(es).y) \o DeathEffects(Tail(es))

\* faulty variant of ParticlePass: the loop walks a copy of self.particles,
\* so that the bursts create_death_effect appends during it are never updated
\* and are dropped by line 612
RECURSIVE ParticlePassOverCopy(_, _, _, _, _, _)
ParticlePassOverCopy(map, plist, i, remaining, updated, spark_kills) ==
    IF i > Len(plist)
    THEN [particles |-> updated, remaining |-> remaining,
          spark_kills |-> spark_kills, walked |-> plist]
    ELSE LET q == plist[i]
             killed == KilledBy(q, remaining)
             u == ParticleUpdate(map, q)
         IN  ParticlePassOverCopy(map, plist, i + 1,
                                  Survivors(q, remaining),
                                  IF u.keep THEN Append(updated, u.q) ELSE updated,
                                  spark_kills + Len(killed))

\* The particle loop of lines 603-611 from index i on.  plist is
\* self.particles, which create_death_effect extends while the loop walks it;
\* walked is the list as the loop has walked it.
RECURSIVE ParticlePass(_, _, _, _, _, _)
ParticlePass(map, plist, i, remaining, updated, spark_kills) ==
    IF i > Len(plist)
    THEN [particles |-> updated, remaining |-> remaining,
          spark_kills |-> spark_kills, walked |-> plist]
    ELSE LET q == plist[i]
             killed == KilledBy(q, remaining)
             u == ParticleUpdate(map, q)
         IN  ParticlePass(map, plist \o DeathEffects(killed), i + 1,
                          Survivors(q, remaining),
                          IF u.keep THEN Append(updated, u.q) ELSE updated,
                          spark_kills + Len(killed))

\* 5 * 30
proliferation_interval == 5 * fps
STAGE_CLEAR_FRAMES == 60

\* faulty variant of stage_clear: the countdown begins with one enemy left
stage_clear_one_left(es, timer) ==
    IF Len(es) <= 1 THEN STAGE_CLEAR_FRAMES ELSE timer

\* lines 635-637: stage_clear_timer at the end of a frame that leaves the
\* enemies es
stage_clear(es, timer) ==
    IF es = <<>> THEN STAGE_CLEAR_FRAMES ELSE timer

\* faulty variant of ProliferatePass: no test against max_enemies
RECURSIVE ProliferatePassUncapped(_, _, _, _)
ProliferatePassUncapped(es, i, born, r) ==
    IF i > Len(es) THEN {es \o born}
    ELSE IF es[i].multiply_cooldown # 0 THEN ProliferatePassUncapped(es, i + 1, born, r)
    ELSE ProliferatePassUncapped(es, i + 1, born, r)
         \cup
         LET parent == [es[i] EXCEPT !.multiply_cooldown = MULTIPLY_COOLDOWN]
             es1 == [es EXCEPT ![i] = parent]
         IN  ProliferatePassUncapped(es1, i + 1,
                                     Append(born, Enemy(es[i].x, es[i].y, r)), r)

\* The loop of lines 625-632 from index i on, over the outcomes of
\* random.random() < proliferation_probability; es is self.enemies, whose
\* members the loop puts on cooldown, and born is new_enemies.
RECURSIVE ProliferatePass(_, _, _, _)
ProliferatePass(es, i, born, r) ==
    IF i > Len(es) THEN {es \o born}
    ELSE IF es[i].multiply_cooldown # 0 THEN ProliferatePass(es, i + 1, born, r)
    ELSE ProliferatePass(es, i + 1, born, r)
         \cup
         LET parent == [es[i] EXCEPT !.multiply_cooldown = MULTIPLY_COOLDOWN]
             es1 == [es EXCEPT ![i] = parent]
         IN  IF Len(es) + Len(born) < max_enemies
             THEN ProliferatePass(es1, i + 1,
                                  Append(born, Enemy(es[i].x, es[i].y, r)), r)
             ELSE ProliferatePass(es1, i + 1, born, r)

----------------------------------------------------------------------------
(* App.update                                                              *)

\* faulty variant of collision_penalty: no roll-back of the position
collision_penalty_speed_only(p, old_x, old_y, collision_occurred) ==
    IF collision_occurred /\ ~is_powered(p.current_speed)
    THEN [p EXCEPT !.current_speed = base_speed]
    ELSE p

\* lines 614-617
collision_penalty(p, old_x, old_y, collision_occurred) ==
    IF collision_occurred /\ ~is_powered(p.current_speed)
    THEN [p EXCEPT !.x = old_x, !.y = old_y, !.current_speed = base_speed]
    ELSE p

\* Input.  A direction is a pair in thousandths; the pointer is in whole
\* pixels; touch_start is <<>> for None and <<x, y>> once a press is seen.
NoTouch == [touch_start |-> <<>>, current_direction |-> <<0, 0>>]
min_distance == 5

\* TouchController.update, lines 92-116: the controller after the call; the
\* call returns its current_direction
TouchControllerUpdate(t, mouse) ==
    IF mouse.btnp
    THEN [touch_start |-> <<mouse.x, mouse.y>>, current_direction |-> <<0, 0>>]
    ELSE IF mouse.btn /\ t.touch_start # <<>>
    THEN LET dx == (mouse.x - t.touch_start[1]) * 1000
             dy == (mouse.y - t.touch_start[2]) * 1000
             length == Length(dx, dy)
         IN  [t EXCEPT !.current_direction =
                  IF length >= min_distance * 1000
                  THEN <<Scale(dx, 1000, length), Scale(dy, 1000, length)>>
                  ELSE <<0, 0>>]
    ELSE NoTouch

\* lines 469-477: the arrow keys
key_direction(keys) ==
    << IF keys.left THEN -1000 ELSE IF keys.right THEN 1000 ELSE 0,
       IF keys.up THEN -1000 ELSE IF keys.down THEN 1000 ELSE 0 >>

\* faulty variant of read_input: the touch controller is read every frame
\* and its direction is used whenever it is not zero
read_input_touch_first(t, keys, mouse) ==
    LET k == key_direction(keys)
        t1 == TouchControllerUpdate(t, mouse)
    IN  IF t1.current_direction # <<0, 0>>
        THEN [dx |-> t1.current_direction[1], dy |-> t1.current_direction[2],
              touch |-> t1]
        ELSE [dx |-> k[1], dy |-> k[2], touch |-> t1]

\* lines 468-481: (dx, dy) handed to Player.update, and the touch controller
\* after the frame's input has been read
read_input(t, keys, mouse) ==
    LET k == key_direction(keys)
    IN  IF k = <<0, 0>>
        THEN LET t1 == TouchControllerUpdate(t, mouse)
             IN  [dx |-> t1.current_direction[1], dy |-> t1.current_direction[2],
                  touch |-> t1]
        ELSE [dx |-> k[1], dy |-> k[2], touch |-> t]

\* The inputs of a frame: no key and right with the button up; with no key,
\* a press at (24, 24), and the button held at (27, 20), 5 px from (24, 24),
\* or at (27, 21), 4.24 px from it; right + down with the button held at
\* (27, 20).
NoKeys == [left |-> FALSE, right |-> FALSE, up |-> FALSE, down |-> FALSE]
pointer(btnp, btn, x, y) == [btnp |-> btnp, btn |-> btn, x |-> x, y |-> y]
StartedTouch == [touch_start |-> <<24, 24>>, current_direction |-> <<0, 0>>]
inputs ==
    LET up == pointer(FALSE, FALSE, 24, 24)
    IN  { [keys |-> NoKeys, mouse |-> up],
          [keys |-> [NoKeys EXCEPT !.right = TRUE], mouse |-> up],
          [keys |-> NoKeys, mouse |-> pointer(TRUE, TRUE, 24, 24)],
          [keys |-> NoKeys, mouse |-> pointer(FALSE, TRUE, 27, 20)],
          [keys |-> NoKeys, mouse |-> pointer(FALSE, TRUE, 27, 21)],
          [keys |-> [NoKeys EXCEPT !.right = TRUE, !.down = TRUE],
           mouse |-> pointer(FALSE, TRUE, 27, 20)] }

\* what the last update call did, for the properties to read
NoFrame ==
    [kind |-> "none", in_dx |-> 0, in_dy |-> 0, keys |-> NoKeys,
     mouse |-> pointer(FALSE, FALSE, 0, 0), old_touch |-> NoTouch,
     old_x |-> 0, old_y |-> 0, old_speed |-> 0, old_enemies |-> 0,
     accel_speed |-> 0, full |-> FALSE, moved |-> FALSE,
     move_x |-> 0, move_y |-> 0, pass_speed |-> 0,
     collision_occurred |-> FALSE, overlaps |-> 0, kills |-> 0, bumps |-> 0,
     spawned |-> 0, remaining |-> 0, spark_kills |-> 0, proliferated |-> FALSE,
     ticks |-> 0, old_particles |-> <<>>, sparks |-> 0, walked |-> <<>>,
     after |-> <<>>,
     before |-> [x |-> 0, y |-> 0, current_speed |-> 0, wall_hits |-> 0,
                 kill_boost_timer |-> 0, wave_time |-> 0],
     step_x |-> 0, step_y |-> 0, hit_kill_boost |-> 0, pass_wall_hits |-> 0,
     old_timer |-> 0, old_enemy_list |-> <<>>, moved_enemies |-> <<>>,
     enemy_pass |-> <<>>, before_pass |-> <<>>]

\* The record of an update call made during the countdown: the player, the
\* particles and the timer it found, the calls counted so far, and of the
\* frame that began the countdown its enemy count, overlaps, kills and speed.
CountdownCall(kind) ==
    [NoFrame EXCEPT !.kind = kind, !.ticks = last.ticks + 1,
                    !.before = player, !.old_timer = proliferation_timer,
                    !.old_particles = particles,
                    !.old_enemies = last.old_enemies, !.overlaps = last.overlaps,
                    !.kills = last.kills, !.pass_speed = last.pass_speed]

\* faulty variant of ResetStage: the enemy list stays empty
ResetStageWithoutEnemies ==
    /\ map_data' \in generate_map_data(screen_width, screen_height, tile_size)
    /\ \E pos \in find_valid_position(map_data') :
         player' = [reset_power_state(player) EXCEPT !.x = pos[1], !.y = pos[2]]
    /\ particles' = <<>>
    /\ enemies' = <<>>

\* faulty variant of ResetStage: the player is moved but keeps its speed,
\* wall_hits and kill_boost_timer
ResetStageKeepPower ==
    /\ map_data' \in generate_map_data(screen_width, screen_height, tile_size)
    /\ \E pos \in find_valid_position(map_data') :
         player' = [player EXCEPT !.x = pos[1], !.y = pos[2]]
    /\ particles' = <<>>
    /\ enemies' \in SeqsOf([k \in 1..initial_enemies |->
                      { Enemy(c[1], c[2], r) : c \in find_valid_position(map_data'),
                                              r \in random_draws }])

\* reset_stage, over its random draws
ResetStage ==
    /\ map_data' \in generate_map_data(screen_width, screen_height, tile_size)
    /\ \E pos \in find_valid_position(map_data') :
         player' = [reset_power_state(player) EXCEPT !.x = pos[1], !.y = pos[2]]
    /\ particles' = <<>>
    /\ enemies' \in SeqsOf([k \in 1..initial_enemies |->
                      { Enemy(c[1], c[2], r) : c \in find_valid_position(map_data'),
                                              r \in random_draws }])

\* lines 459-463 with the countdown still running after the decrement
UpdateCountdown ==
    /\ stage_clear_timer > 1
    /\ stage_clear_timer' = stage_clear_timer - 1
    /\ last' = CountdownCall("countdown")
    /\ UNCHANGED <<map_data, player, enemies, particles, proliferation_timer,
                   frames, probe, touch_controller, tet_game, tet_gameB>>

\* lines 459-463 with the countdown reaching zero
UpdateReset ==
    /\ stage_clear_timer = 1
    /\ stage_clear_timer' = 0
    /\ ResetStage
    /\ last' = CountdownCall("reset")
    /\ UNCHANGED <<proliferation_timer, frames, probe, touch_controller, tet_game, tet_gameB>>

\* lines 465-637: a frame outside the countdown
UpdateFrame ==
    /\ stage_clear_timer = 0
    /\ frames < MaxFrames
    /\ \E input \in inputs, r \in random_draws :
         LET rd == read_input(touch_controller, input.keys, input.mouse)
             in == <<rd.dx, rd.dy>>
             u == PlayerUpdate(player, in[1], in[2])
             m == MoveStep(map_data, player.x, player.y, u.dx, u.dy)
             p1 == WallHit(map_data, u.p, m, u.dx, u.dy)
             sparking == hit_wall(m) /\ is_powered(u.p.current_speed)
         IN  \E angles \in IF sparking THEN random_spark_angles ELSE {<<>>} :
               LET sparks == IF sparking
                             THEN spark_effect(m.x, m.y, u.p.current_speed, angles)
                             ELSE <<>>
                   acc0 == [remaining |-> <<>>, particles |-> particles \o sparks,
                            kill_boost_timer |-> p1.kill_boost_timer,
                            collision_occurred |-> FALSE,
                            overlaps |-> 0, kills |-> 0, bumps |-> 0, spawned |-> 0]
               IN  \E ep \in EnemyPass(map_data, p1, enemies, 1, acc0, r) :
                   \E pp \in {ParticlePass(map_data, ep.particles, 1, ep.remaining,
                                            <<>>, 0)} :
                     LET p2 == [p1 EXCEPT !.kill_boost_timer = ep.kill_boost_timer]
                         p3 == collision_penalty(p2, player.x, player.y,
                                                 ep.collision_occurred)
                         due == proliferation_timer + 1 >= proliferation_interval
                     IN  /\ player' = p3
                         /\ touch_controller' = rd.touch
                         /\ particles' = pp.particles
                         /\ proliferation_timer' = IF due THEN 0
                                                   ELSE proliferation_timer + 1
                         /\ enemies' \in IF due THEN ProliferatePass(pp.remaining, 1, <<>>, r)
                                         ELSE {pp.remaining}
                         /\ stage_clear_timer' = stage_clear(enemies', stage_clear_timer)
                         /\ last' = [kind |-> "frame", in_dx |-> in[1], in_dy |-> in[2],
                                     keys |-> input.keys, mouse |-> input.mouse,
                                     old_touch |-> touch_controller,
                                     old_x |-> player.x, old_y |-> player.y,
                                     old_speed |-> player.current_speed,
                                     old_enemies |-> Len(enemies),
                                     accel_speed |-> u.p.current_speed,
                                     full |-> m.full, moved |-> m.moved,
                                     move_x |-> p1.x, move_y |-> p1.y,
                                     pass_speed |-> p1.current_speed,
                                     collision_occurred |-> ep.collision_occurred,
                                     overlaps |-> ep.overlaps, kills |-> ep.kills,
                                     bumps |-> ep.bumps, spawned |-> ep.spawned,
                                     remaining |-> Len(ep.remaining),
                                     spark_kills |-> pp.spark_kills,
                                     proliferated |-> due, ticks |-> 0,
                                     old_particles |-> particles,
                                     sparks |-> Len(sparks),
                                     walked |-> pp.walked,
                                     after |-> [i \in DOMAIN pp.walked |->
                                                 ParticleUpdate(map_data, pp.walked[i])],
                                     before |-> player,
                                     step_x |-> m.x, step_y |-> m.y,
                                     hit_kill_boost |-> u.p.kill_boost_timer,
                                     pass_wall_hits |-> p1.wall_hits,
                                     old_timer |-> proliferation_timer,
                                     old_enemy_list |-> enemies,
                                     moved_enemies |-> [i \in DOMAIN enemies |->
                                         EnemyUpdate(map_data, enemies[i], r)],
                                     enemy_pass |-> ep.remaining,
                                     before_pass |-> pp.remaining]
    /\ frames' = frames + 1
    /\ UNCHANGED <<map_data, probe, tet_game, tet_gameB>>

----------------------------------------------------------------------------
(* Initial states: App.__init__, and games in progress                     *)

\* tet_game.py and tet_gameB.py are programs of their own: their App does
\* not exist while run.py runs
NoGame == [running |-> FALSE]
NoTetris == tet_game = NoGame /\ tet_gameB = NoGame

NoProbe == [x |-> 0, y |-> 0, half_size |-> 0, result |-> FALSE, done |-> FALSE]

Player(x, y) ==
    [x |-> x, y |-> y, current_speed |-> base_speed, wall_hits |-> 0,
     kill_boost_timer |-> 0, wave_time |-> 0]

\* the state App.__init__ leaves, over its random draws
InitConstructed ==
    /\ map_data \in generate_map_data(screen_width, screen_height, tile_size)
    /\ \E pos \in find_valid_position(map_data) : player = Player(pos[1], pos[2])
    /\ enemies \in SeqsOf([k \in 1..initial_enemies |->
                     { Enemy(c[1], c[2], r) : c \in find_valid_position(map_data),
                                             r \in random_draws }])
    /\ particles = <<>>
    /\ proliferation_timer = 0

\* Games in progress.  The player stands in the last passage cell of the
\* middle row, at its centre or 5.95 px to the right of it (0.05 px short of
\* the wall), at a speed of the acceleration ladder base_speed + k *
\* acceleration; one or two enemies stand at that cell's centre or 3 px to
\* the right of it.
ladder(k) == base_speed + k * acceleration
\* current_speed, wave_time, wall_hits, kill_boost_timer, proliferation_timer
snapshot_players ==
    { <<ladder(0), 0, 0, 0, 0>>,
      <<ladder(0), 0, 0, 0, proliferation_interval - 1>>,
      <<ladder(40), 0, 0, 0, 0>>,
      <<ladder(43), 0, 0, 0, 0>>,
      <<ladder(44), 157, 1, 0, 0>>,
      <<ladder(44), 157, 0, KILL_BOOST_DURATION - 1, 0>>,
      <<ladder(44), 157, 1, KILL_BOOST_DURATION - 1, 0>>,
      <<ladder(44), 157, 1, 1, 0>>,
      <<max_speed, 157, 0, 0, 0>> }
snapshot_x(map) == (Cols(map) - 2) * TILE + (tile_size \div 2) * PX
snapshot_y(map) == (Rows(map) \div 2) * TILE + (tile_size \div 2) * PX
snapshot_enemy(map, off, timers, cooldowns) ==
    { [x |-> snapshot_x(map) + off, y |-> snapshot_y(map), direction |-> 1,
       direction_timer |-> t, phase |-> 0, multiply_cooldown |-> cd]
      : t \in timers, cd \in cooldowns }
snapshot_enemies(map) ==
    UNION { { <<e>> : e \in snapshot_enemy(map, off, {1, 30}, {0}) }
            \cup { <<e>> : e \in snapshot_enemy(map, off, {30},
                                                 {1, MULTIPLY_COOLDOWN - 1}) }
            \cup { <<e1, e2>> : e1 \in snapshot_enemy(map, off, {30}, {0}),
                                e2 \in snapshot_enemy(map, off, {30},
                                                      {0, MULTIPLY_COOLDOWN - 1}) }
            : off \in {0, 3 * PX} }

InitSnapshot ==
    /\ map_data \in generate_map_data(screen_width, screen_height, tile_size)
    /\ \E off \in {0, (595 * PX) \div 100}, sp \in snapshot_players :
         /\ player = [x |-> snapshot_x(map_data) + off, y |-> snapshot_y(map_data),
                      current_speed |-> sp[1], wall_hits |-> sp[3],
                      kill_boost_timer |-> sp[4], wave_time |-> sp[2]]
         /\ proliferation_timer = sp[5]
    /\ enemies \in snapshot_enemies(map_data)
    /\ particles = <<>>

\* Games in progress with particles in flight: the player stands 0.05 px
\* short of the right wall at base_speed and one enemy at the cell's centre.
\* A burst particle is one of a death effect (angle 0, speed 2.0), a spark one
\* of a spark effect at speed ladder(44), at angle 0 or 0.79 rad; wx and wy
\* are 0.05 px short of where the right and the lower wall stop a particle
\* of that speed.
snapshot_particle(x, y, angle, speed, is_spark, life, wall_hits) ==
    [Particle(x, y, angle, speed, is_spark) EXCEPT !.life = life,
                                                   !.wall_hits = wall_hits]
snapshot_particles(map) ==
    LET cx == snapshot_x(map)
        cy == snapshot_y(map)
        wx == cx + (595 * PX) \div 100
        wy == cy + (595 * PX) \div 100
        burst(x, y, life) == snapshot_particle(x, y, 0, 2 * PX, FALSE, life, -1)
        spark(x, y, angle, life, hits) ==
            snapshot_particle(x, y, angle, ladder(44), TRUE, life, hits)
    IN  { <<burst(cx, cy, 1)>>,
          <<burst(cx + 7 * PX, cy, 2)>>,
          <<burst(cx, cy, 1), burst(cx + 7 * PX, cy, 2), spark(cx, cy, 0, 40, 0)>>,
          <<spark(cx, cy, 0, 40, 0), spark(cx, cy, 0, 40, 0)>>,
          <<spark(cx, cy, 0, 1, 0)>>,
          <<spark(wx, cy, 0, 40, 0)>>,
          <<spark(wx, cy, 0, 40, 1)>>,
          <<spark(wx, cy, 0, 1, 0)>>,
          <<spark(wx, wy, 79, 40, 0)>>,
          <<spark(wx, cy, 79, 40, 1)>>,
          <<spark(cx, wy, 79, 40, 0)>> }

InitParticles ==
    /\ map_data \in generate_map_data(screen_width, screen_height, tile_size)
    /\ player = Player(snapshot_x(map_data) + (595 * PX) \div 100,
                       snapshot_y(map_data))
    /\ proliferation_timer = 0
    /\ enemies \in { <<e>> : e \in snapshot_enemy(map_data, 0, {30}, {0}) }
    /\ particles \in snapshot_particles(map_data)

\* Games in progress near the population cap: max_enemies - 1 or max_enemies
\* enemies in the cell, one at its centre and the others together 6 px to the
\* left of it, out of the player's reach; the player stands at the centre or
\* 0.05 px short of the right wall, at base_speed.
snapshot_crowds(map) ==
    { <<near>> \o [k \in 1..n |-> far]
      : near \in snapshot_enemy(map, 0, {30}, {0, MULTIPLY_COOLDOWN - 1}),
        far \in snapshot_enemy(map, -6 * PX, {30}, {0, MULTIPLY_COOLDOWN - 1}),
        n \in {max_enemies - 2, max_enemies - 1} }

InitCrowd ==
    /\ map_data \in generate_map_data(screen_width, screen_height, tile_size)
    /\ \E off \in {0, (595 * PX) \div 100} :
         player = Player(snapshot_x(map_data) + off, snapshot_y(map_data))
    /\ proliferation_timer \in {0, proliferation_interval - 1}
    /\ enemies \in snapshot_crowds(map_data)
    /\ particles = <<>>

Init ==
    /\ \/ InitConstructed /\ touch_controller = NoTouch
       \/ (InitSnapshot \/ InitParticles \/ InitCrowd)
          /\ touch_controller = StartedTouch
    /\ stage_clear_timer = 0
    /\ frames = 0
    /\ last = NoFrame
    /\ probe = NoProbe
    /\ NoTetris

Next == UpdateFrame \/ UpdateCountdown \/ UpdateReset

Spec == Init /\ [][Next]_vars

----------------------------------------------------------------------------
(* The maze generator on its own: grids of 3 .. MaxMazeCols columns and    *)
(* 3 .. MaxMazeRows rows, even counts included                             *)

MaxMazeCols == 9
MaxMazeRows == 9

Idle ==
    /\ player = Player(0, 0)
    /\ enemies = <<>>
    /\ particles = <<>>
    /\ stage_clear_timer = 0
    /\ proliferation_timer = 0
    /\ frames = 0
    /\ last = NoFrame
    /\ probe = NoProbe
    /\ touch_controller = NoTouch

MazeInit == map_data = <<>> /\ Idle /\ NoTetris

GenerateMap ==
    /\ map_data = <<>>
    /\ \E c \in 3..MaxMazeCols, r \in 3..MaxMazeRows :
         map_data' \in generate_map_data(c * tile_size, r * tile_size, tile_size)
    /\ UNCHANGED <<player, enemies, particles, stage_clear_timer,
                   proliferation_timer, frames, last, probe, touch_controller,
                   tet_game, tet_gameB>>

SpecMaze == MazeInit /\ [][GenerateMap]_vars

----------------------------------------------------------------------------
(* The collision probe on its own: can_move_to at points on a half-pixel   *)
(* raster that reaches ProbeMargin pixels beyond the grid on every side    *)

ProbeCols == 5
ProbeRows == 3
ProbeMargin == 3

ProbeInit ==
    /\ map_data \in generate_map_data(ProbeCols * tile_size, ProbeRows * tile_size,
                                      tile_size)
    /\ Idle
    /\ NoTetris

ProbeCall ==
    /\ ~probe.done
    /\ \E i \in (-2 * ProbeMargin)..(2 * (Cols(map_data) * tile_size + ProbeMargin)),
          j \in (-2 * ProbeMargin)..(2 * (Rows(map_data) * tile_size + ProbeMargin)),
          h \in {particle_half_size, character_half_size} :
         probe' = [x |-> i * (PX \div 2), y |-> j * (PX \div 2), half_size |-> h,
                   result |-> can_move_to(map_data, i * (PX \div 2), j * (PX \div 2), h),
                   done |-> TRUE]
    /\ UNCHANGED <<map_data, player, enemies, particles, stage_clear_timer,
                   proliferation_timer, frames, last, touch_controller,
                   tet_game, tet_gameB>>

SpecProbe == ProbeInit /\ [][ProbeCall]_vars

----------------------------------------------------------------------------
(* Properties                                                              *)

Frame == last.kind = "frame"
Moving == last.in_dx # 0 \/ last.in_dy # 0

\* C1: at the end of every update call len(enemies) <= max_enemies, however
\* many enemies touch the non-powered player in the same frame.
C1_PopulationCap == Len(enemies) <= max_enemies

\* the passage cells of a grid, and those a flood fill over 4-adjacent
\* passage cells reaches from the cells in `seen`
Passages(map) ==
    { c \in (0..(Cols(map) - 1)) \X (0..(Rows(map) - 1)) : Cell(map, c[1], c[2]) = 0 }
Adjacent(a, b) == Abs(a[1] - b[1]) + Abs(a[2] - b[2]) = 1
RECURSIVE FloodFill(_, _)
FloodFill(map, seen) ==
    LET more == { c \in Passages(map) \ seen : \E s \in seen : Adjacent(c, s) }
    IN  IF more = {} THEN seen ELSE FloodFill(map, seen \cup more)

\* C2: in every generated grid the seed cell (1,1) is a passage and a flood
\* fill from it over 4-adjacent passage cells reaches every passage cell,
\* the cells of the forced middle row included.
C2_MazeConnected ==
    map_data # <<>> =>
        /\ Cell(map_data, 1, 1) = 0
        /\ FloodFill(map_data, {<<1, 1>>}) = Passages(map_data)
        /\ \A x \in 1..(Cols(map_data) - 2) :
              <<x, Rows(map_data) \div 2>> \in FloodFill(map_data, {<<1, 1>>})

\* a 5x5 grid whose cell (2,2), which carving never opens, is a passage of
\* the forced middle row
C2_Witness ==
    /\ map_data # <<>>
    /\ Cols(map_data) = 5 /\ Rows(map_data) = 5
    /\ Cell(map_data, 2, 2) = 0
    /\ <<2, 2>> \in FloodFill(map_data, {<<1, 1>>})

\* C3: in every generated grid every cell of row 0, row rows-1, column 0 and
\* column cols-1 is a wall, also after the middle row was forced open.
C3_BorderIsWall ==
    map_data # <<>> =>
        /\ \A x \in 0..(Cols(map_data) - 1) :
              Cell(map_data, x, 0) = 1 /\ Cell(map_data, x, Rows(map_data) - 1) = 1
        /\ \A y \in 0..(Rows(map_data) - 1) :
              Cell(map_data, 0, y) = 1 /\ Cell(map_data, Cols(map_data) - 1, y) = 1

\* a 7x7 grid from a 128-pixel-wide screen (8 columns, made odd) whose
\* middle row is open from column 1 to column 5 between two wall cells
C3_Witness ==
    /\ map_data # <<>>
    /\ Cols(map_data) = 7 /\ Rows(map_data) = 7
    /\ \A x \in 1..5 : Cell(map_data, x, 3) = 0
    /\ Cell(map_data, 0, 3) = 1 /\ Cell(map_data, 6, 3) = 1

\* C4: after every update call base_speed <= current_speed <= max_speed.
C4_SpeedInRange ==
    base_speed <= player.current_speed /\ player.current_speed <= max_speed

\* a frame in which the acceleration step overshoots max_speed and is clamped
C4_Witness ==
    /\ Frame /\ Moving
    /\ last.old_speed + acceleration > max_speed
    /\ last.accel_speed = max_speed
    /\ player.current_speed = max_speed

\* C5, as the spec states it: in a frame with nonzero input current_speed
\* does not decrease.
C5_SpeedNonDecreasing ==
    Frame /\ Moving => player.current_speed >= last.old_speed

\* C5, amended: under nonzero input Player.update leaves current_speed at
\* min(old + acceleration, max_speed), never below the old value, and the
\* frame ends at that speed when the whole move succeeded and no enemy
\* touched a non-powered player; only the wall-hit handling and the
\* collision penalty lower it.
C5_AccelerationNonDecreasing ==
    Frame /\ Moving =>
        /\ last.accel_speed = Min(last.old_speed + acceleration, max_speed)
        /\ last.accel_speed >= last.old_speed
        /\ last.full /\ ~last.collision_occurred =>
              /\ player.current_speed = last.accel_speed
              /\ player.current_speed >= last.old_speed

\* a frame of unobstructed movement that ends faster than it began
C5_Witness ==
    /\ Frame /\ Moving
    /\ last.full /\ ~last.collision_occurred
    /\ player.current_speed > last.old_speed
    /\ player.current_speed < max_speed

\* C6: a frame with zero input ends with current_speed = base_speed and the
\* movement step leaves the player where it was.
C6_ZeroInputResets ==
    Frame /\ ~Moving =>
        /\ player.current_speed = base_speed
        /\ last.full /\ ~last.moved
        /\ last.move_x = last.old_x /\ last.move_y = last.old_y
        /\ player.x = last.old_x /\ player.y = last.old_y

\* a zero-input frame of a player that was at max_speed
C6_Witness ==
    /\ Frame /\ ~Moving
    /\ last.old_speed = max_speed
    /\ player.current_speed = base_speed

\* C7: in the enemy pass every enemy overlapping the player is killed when
\* current_speed >= max_speed * 0.3 at that moment, and otherwise none is:
\* each survives and the collision flag is set; wall_hits and
\* kill_boost_timer have no part in it.
C7_PoweredIffFast ==
    Frame =>
        /\ last.remaining = last.old_enemies - last.kills + last.spawned
        /\ IF last.pass_speed * 10 >= max_speed * 3
           THEN /\ last.kills = last.overlaps
                /\ last.bumps = 0
                /\ ~last.collision_occurred
           ELSE /\ last.kills = 0
                /\ last.bumps = last.overlaps
                /\ last.collision_occurred <=> last.overlaps > 0

\* a player below the threshold before the frame and over it in the enemy
\* pass kills the enemy it overlaps
C7_Witness ==
    /\ Frame
    /\ last.old_speed * 10 < max_speed * 3
    /\ last.pass_speed * 10 >= max_speed * 3
    /\ last.overlaps > 0 /\ last.kills = last.overlaps

\* C8: a powered player overlapping the only enemy removes it and leaves the
\* enemy list empty; the update calls that follow count a 60-call stage-clear
\* countdown during which nothing else changes; the 60th of them builds a new
\* maze and repopulates the enemy list to initial_enemies.
C8_StageClear ==
    /\ Frame /\ last.old_enemies = 1 /\ last.overlaps = 1
          /\ last.pass_speed * 10 >= max_speed * 3
          => last.kills = 1 /\ enemies = <<>>
    /\ Frame => stage_clear_timer = (IF enemies = <<>> THEN 60 ELSE 0)
    /\ last.kind = "countdown" =>
          /\ last.ticks \in 1..59
          /\ stage_clear_timer = 60 - last.ticks
          /\ enemies = <<>>
    /\ last.kind = "reset" =>
          /\ last.ticks = 60
          /\ stage_clear_timer = 0
          /\ Len(enemies) = initial_enemies
          /\ particles = <<>>
          /\ map_data \in generate_map_data(screen_width, screen_height, tile_size)
          /\ \A i \in 1..Len(enemies) :
                <<enemies[i].x, enemies[i].y>> \in find_valid_position(map_data)

\* the stage reset that ends the countdown begun by a powered player's kill
\* of the only enemy
C8_Witness ==
    /\ last.kind = "reset" /\ last.ticks = 60
    /\ last.old_enemies = 1 /\ last.overlaps = 1 /\ last.kills = 1
    /\ last.pass_speed * 10 >= max_speed * 3
    /\ Len(enemies) = initial_enemies

\* C9: when a player that is not powered moves into a wall, an enemy
\* collision in the same frame puts it back at its pre-frame position with
\* current_speed = base_speed; without one current_speed is the accelerated
\* speed times 0.9, not below 3 * base_speed, and the position a slide
\* sub-move reached is kept.
C9_NonPoweredBump ==
    Frame /\ ~last.full /\ last.accel_speed * 10 < max_speed * 3 =>
        IF last.collision_occurred
        THEN /\ player.x = last.old_x /\ player.y = last.old_y
             /\ player.current_speed = base_speed
        ELSE /\ player.current_speed =
                   Max(3 * base_speed, (last.accel_speed * 9) \div 10)
             /\ player.x = last.move_x /\ player.y = last.move_y
             /\ last.moved => player.x # last.old_x \/ player.y # last.old_y

\* a non-powered player slid along the wall it ran into, was touched by an
\* enemy, and ended the frame back where it began at base_speed
C9_Witness ==
    /\ Frame /\ ~last.full /\ last.moved
    /\ last.accel_speed * 10 < max_speed * 3
    /\ last.collision_occurred
    /\ last.move_x # last.old_x \/ last.move_y # last.old_y
    /\ player.x = last.old_x /\ player.y = last.old_y
    /\ player.current_speed = base_speed /\ last.old_speed > base_speed

\* the tile a coordinate floor-divides to
C10_Tile(v) == v \div (tile_size * PX)
\* the 8 sample points: corners and edge midpoints of the probe's box
C10_SamplePoints ==
    { <<probe.x + sx * probe.half_size * PX, probe.y + sy * probe.half_size * PX>>
      : sx \in {-1, 0, 1}, sy \in {-1, 0, 1} } \ { <<probe.x, probe.y>> }
C10_Blocked(pt) ==
    \/ C10_Tile(pt[1]) < 0 \/ C10_Tile(pt[1]) >= Len(map_data[1])
    \/ C10_Tile(pt[2]) < 0 \/ C10_Tile(pt[2]) >= Len(map_data)
    \/ map_data[C10_Tile(pt[2]) + 1][C10_Tile(pt[1]) + 1] = 1

\* C10: can_move_to(x, y, h) is False iff one of the 8 sample points
\* floor-divides to a tile that is a wall or lies outside the grid, negative
\* coordinates included, and True otherwise.
C10_CanMoveTo ==
    probe.done => (probe.result <=> ~ \E pt \in C10_SamplePoints : C10_Blocked(pt))

\* a box above and left of the grid whose only blocked sample points have a
\* negative tile index
C10_Witness ==
    /\ probe.done /\ ~probe.result
    /\ \A pt \in C10_SamplePoints : pt[1] < 0 /\ pt[2] < 0

\* a burst particle after one update: moved by its velocity, walls or not,
\* and one frame older
C11_Advanced(q) == [q EXCEPT !.x = q.x + q.dx, !.y = q.y + q.dy, !.life = q.life - 1]
C11_Burst(q) == ~q.is_spark
C11_Created(q) == ~q.is_spark /\ q.life = PARTICLE_LIFE

\* C11: a frame updates every burst particle once and keeps exactly those
\* whose life is still positive, so that one created with life 50 is kept by
\* its first 49 updates and dropped by the 50th, inside a wall or not; the
\* frame creates 8 bursts per enemy killed by the player or by a spark, and
\* they are among the particles it walks, so all are in the next frame's list
\* with life 49.
C11_BurstDecay ==
    Frame =>
        LET advanced == [i \in DOMAIN last.walked |-> C11_Advanced(last.walked[i])]
            alive(q) == q.life > 0
        IN  /\ SelectSeq(particles, C11_Burst)
                 = SelectSeq(SelectSeq(advanced, C11_Burst), alive)
            /\ SubSeq(last.walked, 1, Len(last.old_particles)) = last.old_particles
            /\ \A i \in DOMAIN last.old_particles :
                  last.old_particles[i].life \in 1..(PARTICLE_LIFE - 1)
            /\ Len(SelectSeq(last.walked, C11_Created))
                 = 8 * (last.kills + last.spark_kills)
            /\ \A i \in DOMAIN last.walked :
                  C11_Created(last.walked[i]) =>
                      \E j \in DOMAIN particles :
                         particles[j] = C11_Advanced(last.walked[i])
                                        /\ particles[j].life = PARTICLE_LIFE - 1

\* a frame that dropped a burst on its last update, kept one that is inside
\* a wall, and kept the 8 bursts of an enemy a spark killed in the particle
\* pass
C11_Witness ==
    /\ Frame /\ last.spark_kills = 1 /\ last.kills = 0
    /\ \E i \in DOMAIN last.walked :
          C11_Burst(last.walked[i]) /\ last.walked[i].life = 1
    /\ \E j \in DOMAIN particles :
          /\ C11_Burst(particles[j]) /\ particles[j].life = 1
          /\ ~can_move_to(map_data, particles[j].x, particles[j].y, particle_half_size)
    /\ Len(SelectSeq(particles, C11_Burst)) = 9
    /\ Len(SelectSeq(particles, LAMBDA q : C11_Burst(q) /\ q.life = PARTICLE_LIFE - 1)) = 8

\* is a particle's box at (x, y) stopped by a wall
C12_Blocked(x, y) == ~can_move_to(map_data, x, y, particle_half_size)

\* what the claim says one update does to spark q, a being the spark after
\* it and keep whether it stays in the list
C12_Update(q, a, keep) ==
    LET new_x == q.x + q.dx
        new_y == q.y + q.dy
    IN  /\ q.wall_hits \in 0..1
        /\ IF C12_Blocked(new_x, new_y)
           THEN /\ a.x = q.x /\ a.y = q.y
                /\ a.wall_hits = q.wall_hits + 1
                /\ a.dx = (IF C12_Blocked(new_x, q.y) THEN -q.dx ELSE q.dx)
                /\ a.dy = (IF C12_Blocked(q.x, new_y) THEN -q.dy ELSE q.dy)
           ELSE /\ a.x = new_x /\ a.y = new_y
                /\ a.wall_hits = q.wall_hits
                /\ a.dx = q.dx /\ a.dy = q.dy
        /\ a.life = q.life - 1
        /\ a.wall_hits <= 2
        /\ keep <=> (a.life > 0 /\ a.wall_hits < 2)

\* C12: a spark whose next position is blocked stays where it is, negates dx
\* iff the x-only move is blocked and dy iff the y-only move is blocked, and
\* counts one wall hit; it leaves the list in the update in which wall_hits
\* reaches 2 or life reaches 0, so no spark in the list has wall_hits over 1
\* and the cap of 8 never removes one.
C12_SparkBounce ==
    /\ \A j \in DOMAIN particles :
          particles[j].is_spark =>
              particles[j].wall_hits \in 0..1 /\ particles[j].life > 0
    /\ Frame =>
          /\ \A i \in DOMAIN last.walked :
                last.walked[i].is_spark =>
                    C12_Update(last.walked[i], last.after[i].q, last.after[i].keep)
          /\ SelectSeq(particles, LAMBDA q : q.is_spark)
               = SelectSeq([i \in DOMAIN last.walked |-> last.after[i].q],
                           LAMBDA q : q.is_spark /\ q.life > 0 /\ q.wall_hits < 2)

\* a spark that had bounced once flew at 45 degrees into the right wall: it
\* stayed in place, dx alone was negated, wall_hits became 2 and the spark
\* left the list with 39 frames of life to go
C12_Witness ==
    /\ Frame
    /\ \E i \in DOMAIN last.walked :
          LET q == last.walked[i]
              a == last.after[i].q
          IN  /\ q.is_spark /\ q.wall_hits = 1 /\ q.dx > 0 /\ q.dy > 0
              /\ C12_Blocked(q.x + q.dx, q.y + q.dy)
              /\ C12_Blocked(q.x + q.dx, q.y) /\ ~C12_Blocked(q.x, q.y + q.dy)
              /\ a.x = q.x /\ a.y = q.y /\ a.dx = -q.dx /\ a.dy = q.dy
              /\ a.wall_hits = 2 /\ a.life = 39
              /\ ~last.after[i].keep
    /\ \A j \in DOMAIN particles : ~particles[j].is_spark

\* the wall-hit handling of lines 549-574 left its mark on the frame: sparks
\* were created, or the speed the enemy pass saw is not the accelerated one
\* (damped, or reset to base_speed)
C13_Handled == last.sparks > 0 \/ last.pass_speed # last.accel_speed

\* C13: the wall-hit handling is applied only in frames in which the
\* movement step left the player where it was: neither the full move nor a
\* slide sub-move changed its position.
C13_WallHitOnlyIfStuck ==
    Frame /\ C13_Handled =>
        /\ ~last.full /\ ~last.moved
        /\ last.step_x = last.old_x /\ last.step_y = last.old_y

\* C14: a powered wall hit at a time when kill_boost_timer > 0 leaves
\* wall_hits as it was and does not reset the power state; a frame in which
\* the player kills an enemy by contact ends with kill_boost_timer = 30.
C14_KillBoost ==
    Frame =>
        /\ last.hit_kill_boost = Max(last.before.kill_boost_timer - 1, 0)
        /\ ~last.full /\ last.accel_speed >= powerd_speed /\ last.hit_kill_boost > 0 =>
              /\ last.pass_wall_hits = last.before.wall_hits
              /\ player.wall_hits = last.before.wall_hits
              /\ last.pass_speed = last.accel_speed
              /\ player.current_speed = last.accel_speed
        /\ last.kills > 0 => player.kill_boost_timer = KILL_BOOST_DURATION

\* a powered player with one wall hit counted and 28 boosted frames left ran
\* into the wall, kept wall_hits = 1 and its speed, and killed an enemy on the
\* rebound, which set the timer back to 30
C14_Witness ==
    /\ Frame /\ ~last.full /\ last.accel_speed >= powerd_speed
    /\ last.before.wall_hits = 1 /\ last.hit_kill_boost = KILL_BOOST_DURATION - 2
    /\ last.sparks = 3
    /\ player.wall_hits = 1 /\ player.current_speed >= powerd_speed
    /\ last.kills = 1 /\ player.kill_boost_timer = KILL_BOOST_DURATION

\* the update call ran reset_power_state: through reset_stage, or at line 567
\* in a powered wall hit that brought wall_hits to MAX_WALL_HITS with no
\* kill boost left
C15_ResetCalled ==
    \/ last.kind = "reset"
    \/ /\ Frame /\ ~last.full /\ last.accel_speed >= powerd_speed
       /\ last.hit_kill_boost <= 0
       /\ last.before.wall_hits + 1 >= MAX_WALL_HITS
C15_LeftPower ==
    /\ last.kind # "none"
    /\ last.before.current_speed >= powerd_speed
    /\ player.current_speed < powerd_speed

\* C15, as the spec states it: a player that is powered before an update
\* call and not powered after it had reset_power_state called in that call.
C15_ResetOnlyExit == C15_LeftPower => C15_ResetCalled

\* C15, amended: a player that is powered before an update call and not
\* powered after it either had reset_power_state called in that call and ends
\* it with base_speed, wall_hits 0 and kill_boost_timer 0, or the call was a
\* frame with zero input, in which Player.update set current_speed to
\* base_speed and left wall_hits and the decremented kill_boost_timer alone.
C15_PoweredExit ==
    C15_LeftPower =>
        \/ /\ C15_ResetCalled
           /\ player.current_speed = base_speed
           /\ player.wall_hits = 0 /\ player.kill_boost_timer = 0
        \/ /\ Frame /\ ~Moving /\ ~C15_ResetCalled
           /\ player.current_speed = base_speed
           /\ player.wall_hits = last.before.wall_hits
           /\ player.kill_boost_timer = Max(last.before.kill_boost_timer - 1, 0)

\* a powered player with one wall hit counted and a kill boost running let
\* go of the input: the frame ends at base_speed with the wall hit still
\* counted and the boost still running
C15_Witness ==
    /\ Frame /\ ~Moving /\ C15_LeftPower
    /\ last.before.wall_hits = 1 /\ player.wall_hits = 1
    /\ last.before.kill_boost_timer = KILL_BOOST_DURATION - 1
    /\ player.kill_boost_timer = KILL_BOOST_DURATION - 2
    /\ player.current_speed = base_speed

\* An enemy that reproduced in frame F leaves it with multiply_cooldown =
\* 150 and Enemy.update takes one off per frame, so it starts frame F + k
\* with 151 - k: the frames that start with a cooldown of 1 .. 150 are the
\* 150 frames that follow the reproduction.
C16_Locked(e) == e.multiply_cooldown \in 1..MULTIPLY_COOLDOWN

\* C16: in none of the 150 frames that follow the frame in which it
\* reproduced does an enemy reproduce again: a frame that starts with every
\* enemy in that window sees no offspring, by contact or in the periodic pass.
C16_CooldownLock ==
    Frame /\ (\A i \in DOMAIN last.old_enemy_list : C16_Locked(last.old_enemy_list[i])) =>
        /\ last.spawned = 0
        /\ Len(enemies) = Len(last.before_pass)
        /\ \A j \in DOMAIN enemies : enemies[j].multiply_cooldown < MULTIPLY_COOLDOWN

\* the enemies, as Enemy.update left them, that overlap the player in the
\* enemy pass, and those of them that are off cooldown
C17_Touched ==
    { i \in DOMAIN last.moved_enemies :
        /\ Abs(last.move_x - last.moved_enemies[i].x) < 4 * PX
        /\ Abs(last.move_y - last.moved_enemies[i].y) < 4 * PX }
C17_Fertile == { i \in C17_Touched : last.moved_enemies[i].multiply_cooldown = 0 }
\* the enemy pass of a non-powered player with k offspring per touched enemy
\* that is off cooldown: that many enemies are added, each at a passage cell
\* and off cooldown, and the touched enemies stay in the list, on a cooldown
\* of 150 if they reproduced and on their own otherwise
C17_Pass(k) ==
    /\ last.spawned = k * Cardinality(C17_Fertile)
    /\ Len(last.enemy_pass) = last.old_enemies + last.spawned
    /\ Cardinality({ j \in DOMAIN last.enemy_pass :
                       /\ <<last.enemy_pass[j].x, last.enemy_pass[j].y>>
                             \in find_valid_position(map_data)
                       /\ last.enemy_pass[j].multiply_cooldown = 0 }) >= last.spawned
    /\ \A i \in C17_Touched :
          \E j \in DOMAIN last.enemy_pass, d \in 0..3 :
             last.enemy_pass[j] =
                 [last.moved_enemies[i] EXCEPT
                     !.direction = d,
                     !.multiply_cooldown =
                         IF i \in C17_Fertile /\ k > 0 THEN MULTIPLY_COOLDOWN ELSE @]

\* C17, as the spec states it: a non-powered player overlapping an enemy
\* that is off cooldown while the population is below max_enemies adds
\* exactly 2 offspring and puts the parent on a cooldown of 150; on cooldown
\* or at the cap nothing is added and the cooldown stays.
C17_TwoOffspring ==
    Frame /\ last.pass_speed < powerd_speed =>
        C17_Pass(IF last.old_enemies < max_enemies THEN 2 ELSE 0)

\* C17, amended: the number added is min(2, max_enemies - n), n being
\* len(enemies) at the start of the frame.
C17_Offspring ==
    Frame /\ last.pass_speed < powerd_speed =>
        C17_Pass(IF last.old_enemies < max_enemies
                 THEN Min(2, max_enemies - last.old_enemies) ELSE 0)

\* one enemy short of the cap, a non-powered player touched an enemy that
\* was off cooldown: one offspring was added and the parent put on cooldown
C17_Witness ==
    /\ Frame /\ last.pass_speed < powerd_speed
    /\ last.old_enemies = max_enemies - 1
    /\ Cardinality(C17_Fertile) = 1
    /\ last.spawned = 1
    /\ Len(last.enemy_pass) = max_enemies
    /\ \E j \in DOMAIN last.enemy_pass :
          last.enemy_pass[j].multiply_cooldown = MULTIPLY_COOLDOWN

\* the enemies before the periodic pass that the pass put on cooldown, and
\* the enemies the pass appended
C18_Parents ==
    { i \in DOMAIN last.before_pass :
        /\ last.before_pass[i].multiply_cooldown = 0
        /\ enemies[i].multiply_cooldown = MULTIPLY_COOLDOWN }
C18_Born == (Len(last.before_pass) + 1)..Len(enemies)

\* C18: the periodic pass runs in the frame that brings proliferation_timer
\* to 150 and sets it back to 0, every other frame outside the countdown
\* adds 1 to it, so it runs in every 150th such frame; the pass changes
\* nothing but the cooldown of enemies that were off cooldown, appends at
\* most one offspring per such enemy, each at its parent's position and off
\* cooldown (it did not reproduce), and appends none once the list and the
\* offspring of the pass together number max_enemies.
C18_PeriodicPass ==
    /\ proliferation_timer \in 0..(proliferation_interval - 1)
    /\ Frame =>
          /\ last.proliferated <=> last.old_timer + 1 = proliferation_interval
          /\ proliferation_timer = (IF last.proliferated THEN 0 ELSE last.old_timer + 1)
          /\ ~last.proliferated => enemies = last.before_pass
          /\ last.proliferated =>
                /\ Len(enemies) >= Len(last.before_pass)
                /\ \A i \in DOMAIN last.before_pass :
                      \/ enemies[i] = last.before_pass[i]
                      \/ /\ i \in C18_Parents
                         /\ enemies[i] = [last.before_pass[i] EXCEPT
                                            !.multiply_cooldown = MULTIPLY_COOLDOWN]
                /\ Cardinality(C18_Born) <= Cardinality(C18_Parents)
                /\ \A j \in C18_Born :
                      /\ enemies[j].multiply_cooldown = 0
                      /\ \E i \in C18_Parents :
                            enemies[j].x = enemies[i].x /\ enemies[j].y = enemies[i].y
                /\ C18_Born # {} => Len(enemies) <= max_enemies
    /\ last.kind \in {"countdown", "reset"} => proliferation_timer = last.old_timer

\* a pass over max_enemies - 1 enemies in which two of them drew the right
\* to reproduce: both are on cooldown, and only one offspring was appended,
\* at its parent's position
C18_Witness ==
    /\ Frame /\ last.proliferated /\ proliferation_timer = 0
    /\ last.old_timer = proliferation_interval - 1
    /\ Len(last.before_pass) = max_enemies - 1
    /\ Cardinality(C18_Parents) = 2
    /\ Cardinality(C18_Born) = 1
    /\ Len(enemies) = max_enemies

\* enemy i of the start of the frame, where Enemy.update left it: it
\* overlapped a powered player in the enemy pass; a spark of the particle
\* pass, where the spark stood before its own update, overlapped it; it is
\* in the list at the end of the frame
C19_SamePlace(a, b) == a.x = b.x /\ a.y = b.y
C19_ByPlayer(i) ==
    /\ last.pass_speed >= powerd_speed
    /\ Abs(last.move_x - last.moved_enemies[i].x) < 4 * PX
    /\ Abs(last.move_y - last.moved_enemies[i].y) < 4 * PX
C19_BySpark(i) ==
    \E k \in DOMAIN last.walked :
       /\ last.walked[k].is_spark
       /\ Abs(last.walked[k].x - last.moved_enemies[i].x) < 4 * PX
       /\ Abs(last.walked[k].y - last.moved_enemies[i].y) < 4 * PX
C19_Present(i) ==
    \E j \in DOMAIN enemies : C19_SamePlace(enemies[j], last.moved_enemies[i])
\* the bursts the frame created at the place of enemy i
C19_BurstsAt(i) ==
    { k \in DOMAIN last.walked :
        /\ ~last.walked[k].is_spark /\ last.walked[k].life = PARTICLE_LIFE
        /\ C19_SamePlace(last.walked[k], last.moved_enemies[i]) }

\* C19: an enemy of the start of a frame is missing at its end exactly if it
\* overlapped a powered player in the enemy pass or a spark overlapped it in
\* the particle pass; burst particles remove none; every enemy removed left
\* one death burst of 8 particles where it stood, and the frame created no
\* other burst.  Outside frames only the stage reset changes the list.
C19_EnemyRemoval ==
    /\ Frame =>
          /\ \A i \in DOMAIN last.moved_enemies :
                /\ ~C19_Present(i) <=> (C19_ByPlayer(i) \/ C19_BySpark(i))
                /\ Cardinality(C19_BurstsAt(i)) =
                      IF C19_Present(i) THEN 0
                      ELSE 8 * Cardinality({ h \in DOMAIN last.moved_enemies :
                                  C19_SamePlace(last.moved_enemies[h],
                                                last.moved_enemies[i]) })
          /\ Cardinality({ k \in DOMAIN last.walked :
                             ~last.walked[k].is_spark
                             /\ last.walked[k].life = PARTICLE_LIFE })
               = 8 * (last.old_enemies + last.spawned - Len(last.before_pass))
    /\ last.kind = "countdown" => enemies = <<>>

\* two sparks in flight stood on the only enemy: the enemy is gone, one
\* burst of 8 particles was created where it stood, and the player, not
\* powered and out of reach, had no part in it
C19_Witness ==
    /\ Frame /\ last.old_enemies = 1 /\ enemies = <<>>
    /\ last.pass_speed < powerd_speed /\ last.overlaps = 0
    /\ Cardinality({ k \in DOMAIN last.old_particles :
                       last.old_particles[k].is_spark }) = 2
    /\ C19_BySpark(1) /\ ~C19_ByPlayer(1)
    /\ Cardinality(C19_BurstsAt(1)) = 8
    /\ Len(particles) = 10

\* C20: an update call made while stage_clear_timer > 0 takes one off the
\* timer and processes no frame; while the timer stays positive it changes
\* nothing else, and the call that brings it to 0 leaves a stage made anew: a
\* generated maze, the player at a passage cell with base_speed, wall_hits
\* 0 and kill_boost_timer 0, no particles and initial_enemies enemies;
\* proliferation_timer is the same before and after either call.
C20_Countdown ==
    [][stage_clear_timer > 0 =>
          /\ stage_clear_timer' = stage_clear_timer - 1
          /\ proliferation_timer' = proliferation_timer
          /\ frames' = frames
          /\ last'.kind # "frame"
          /\ IF stage_clear_timer' > 0
             THEN /\ player' = player /\ enemies' = enemies
                  /\ particles' = particles /\ map_data' = map_data
             ELSE /\ map_data' \in generate_map_data(screen_width, screen_height,
                                                     tile_size)
                  /\ <<player'.x, player'.y>> \in find_valid_position(map_data')
                  /\ player'.current_speed = base_speed
                  /\ player'.wall_hits = 0
                  /\ player'.kill_boost_timer = 0
                  /\ particles' = <<>>
                  /\ Len(enemies') = initial_enemies
    ]_vars

\* the call that ended the countdown found a powered player with a wall hit
\* counted and the kill boost of its last kill still at 30, and particles in
\* flight; it left the player at base_speed with both cleared, no particles
\* and initial_enemies enemies
C20_Witness ==
    /\ last.kind = "reset" /\ stage_clear_timer = 0
    /\ last.before.current_speed >= powerd_speed
    /\ last.before.wall_hits = 1
    /\ last.before.kill_boost_timer = KILL_BOOST_DURATION
    /\ last.old_particles # <<>>
    /\ player.current_speed = base_speed
    /\ player.wall_hits = 0 /\ player.kill_boost_timer = 0
    /\ particles = <<>>
    /\ Len(enemies) = initial_enemies

----------------------------------------------------------------------------
\* C21: keyboard input has priority over the touch controller.  In a frame
\* whose arrow keys give a nonzero direction, that direction is the one
\* handed to Player.update and the touch controller is left as it was; in a
\* frame whose keys give (0, 0) the direction is the touch controller's, and
\* it is (0, 0) in the frame of the press, with the button up, and for a drag
\* of less than 5 pixels from the start of the touch.
C21_ShortDrag ==
    /\ last.old_touch.touch_start # <<>>
    /\ LET dx == last.mouse.x - last.old_touch.touch_start[1]
           dy == last.mouse.y - last.old_touch.touch_start[2]
       IN  dx * dx + dy * dy < 25
C21_KeyboardPriority ==
    Frame =>
      LET k == key_direction(last.keys)
          in == <<last.in_dx, last.in_dy>>
      IN  /\ k # <<0, 0>> => in = k /\ touch_controller = last.old_touch
          /\ k = <<0, 0>> => in = touch_controller.current_direction
          /\ k = <<0, 0>> /\ (last.mouse.btnp \/ ~last.mouse.btn \/ C21_ShortDrag)
               => in = <<0, 0>>
\* a key is down while a drag of 5 pixels is held, and the player moves
C21_Witness ==
    /\ Frame
    /\ key_direction(last.keys) # <<0, 0>>
    /\ last.mouse.btn /\ ~last.mouse.btnp
    /\ last.old_touch.touch_start # <<>> /\ ~C21_ShortDrag
    /\ last.moved

----------------------------------------------------------------------------
\* C22: neither list is changed while it is walked.  The enemy pass visits
\* each enemy the frame began with once, and the particle pass visits exactly
\* the particles that were in the list when the pass began: those the frame
\* began with, the sparks of the player's wall hit and the bursts of the
\* player's kills, and no particle added during the pass.
C22_PassStart == Len(last.old_particles) + last.sparks + 8 * last.kills
C22_FreshCollections ==
    Frame => /\ Len(last.moved_enemies) = last.old_enemies
             /\ Len(last.walked) = C22_PassStart

----------------------------------------------------------------------------
\* C23: within a frame the player's move, wall hit and sparks come before
\* the enemy pass, and the enemy pass before the particle pass.  The sparks
\* of the frame's wall hit are walked by the frame's particle pass, behind
\* the particles already in flight.  The enemy pass counts the enemies that,
\* where Enemy.update put them, overlap the player where its move and wall
\* hit left it, and keeps the others where Enemy.update put them.  The
\* particle pass removes, of the enemies the enemy pass kept or spawned,
\* exactly those a spark it walks overlaps.
C23_Sparked(e) ==
    \E k \in DOMAIN last.walked :
       /\ last.walked[k].is_spark
       /\ Abs(last.walked[k].x - e.x) < 4 * PX
       /\ Abs(last.walked[k].y - e.y) < 4 * PX
C23_Overlapping ==
    { i \in DOMAIN last.moved_enemies :
        /\ Abs(last.move_x - last.moved_enemies[i].x) < 4 * PX
        /\ Abs(last.move_y - last.moved_enemies[i].y) < 4 * PX }
C23_NotSparked(e) == ~C23_Sparked(e)
C23_Order ==
    Frame =>
      LET n == Len(last.old_particles)
      IN  /\ Len(last.walked) >= n + last.sparks
          /\ SubSeq(last.walked, 1, n) = last.old_particles
          /\ \A k \in (n + 1)..(n + last.sparks) :
                /\ last.walked[k].is_spark
                /\ last.walked[k].life = PARTICLE_LIFE
                /\ last.walked[k].x = last.step_x
                /\ last.walked[k].y = last.step_y
          /\ last.overlaps = Cardinality(C23_Overlapping)
          /\ \A i \in DOMAIN last.moved_enemies \ C23_Overlapping :
                \E j \in DOMAIN last.enemy_pass :
                   /\ last.enemy_pass[j].x = last.moved_enemies[i].x
                   /\ last.enemy_pass[j].y = last.moved_enemies[i].y
          /\ Len(last.enemy_pass) = last.old_enemies - last.kills + last.spawned
          /\ last.before_pass = SelectSeq(last.enemy_pass, C23_NotSparked)
\* the player hit a wall in this frame, and a spark of that hit removed an
\* enemy that the enemy pass of the frame had moved and kept
C23_Witness ==
    /\ Frame
    /\ ~last.full /\ last.sparks > 0
    /\ last.old_particles = <<>>
    /\ last.enemy_pass # <<>>
    /\ last.moved_enemies[1].x # last.old_enemy_list[1].x
    /\ last.spark_kills > 0

----------------------------------------------------------------------------
\* C24: at the end of every update call the player and every enemy stand
\* where can_move_to with half size 2 is true, on the map of that moment.
C24_Traversable ==
    /\ can_move_to(map_data, player.x, player.y, character_half_size)
    /\ \A i \in DOMAIN enemies :
          can_move_to(map_data, enemies[i].x, enemies[i].y, character_half_size)
\* a powered player hit the wall and was bounced back from where it stopped,
\* with an enemy on the stage
C24_Witness ==
    /\ Frame
    /\ ~last.full
    /\ last.accel_speed >= powerd_speed
    /\ <<last.move_x, last.move_y>> # <<last.step_x, last.step_y>>
    /\ <<player.x, player.y>> = <<last.move_x, last.move_y>>
    /\ enemies # <<>>

----------------------------------------------------------------------------
\* C25: after every update call 0 <= wall_hits < MAX_WALL_HITS.  A frame
\* changes wall_hits only on a powered wall hit with kill_boost_timer <= 0:
\* it then counts one more, and on reaching MAX_WALL_HITS the frame ends with
\* wall_hits 0, current_speed base_speed and kill_boost_timer 0.  A frame
\* without such a hit (the player stops, is damped at a wall, or is thrown
\* back by an enemy) leaves wall_hits as it was.
C25_CountedHit ==
    /\ ~last.full
    /\ last.accel_speed >= powerd_speed
    /\ last.hit_kill_boost <= 0
C25_WallHits ==
    /\ 0 <= player.wall_hits /\ player.wall_hits < MAX_WALL_HITS
    /\ Frame =>
         IF C25_CountedHit
         THEN IF last.before.wall_hits + 1 >= MAX_WALL_HITS
              THEN /\ player.wall_hits = 0
                   /\ player.current_speed = base_speed
                   /\ player.kill_boost_timer = 0
              ELSE player.wall_hits = last.before.wall_hits + 1
         ELSE player.wall_hits = last.before.wall_hits
\* the second counted hit: the frame began with wall_hits 1 and ends reset
C25_Witness ==
    /\ Frame
    /\ C25_CountedHit
    /\ last.before.wall_hits = 1
    /\ player.wall_hits = 0
    /\ player.current_speed = base_speed

----------------------------------------------------------------------------
\* C26: after every update call the enemy list is empty exactly if
\* stage_clear_timer > 0.  A frame sets the timer to 60 exactly if it ends
\* without enemies; while the timer runs the enemy list stays empty and the
\* next update call is a countdown call, the timer and the countdown calls
\* made so far adding up to 60; the 60th of them resets the stage with
\* initial_enemies enemies.
C26_ClearIffCountdown ==
    /\ enemies = <<>> <=> stage_clear_timer > 0
    /\ stage_clear_timer \in 0..STAGE_CLEAR_FRAMES
    /\ Frame => (stage_clear_timer = STAGE_CLEAR_FRAMES <=> enemies = <<>>)
    /\ stage_clear_timer > 0 =>
          /\ stage_clear_timer + last.ticks = STAGE_CLEAR_FRAMES
          /\ ENABLED (UpdateCountdown \/ UpdateReset)
          /\ ~ENABLED UpdateFrame
    /\ last.kind = "reset" =>
          /\ last.ticks = STAGE_CLEAR_FRAMES
          /\ Len(enemies) = initial_enemies
\* sparks, not the player, removed the last enemy, and the 60th call after
\* that frame has reset the stage
C26_Witness ==
    /\ last.kind = "reset"
    /\ last.kills = 0
    /\ last.ticks = STAGE_CLEAR_FRAMES
    /\ Len(enemies) = initial_enemies
    /\ stage_clear_timer = 0

----------------------------------------------------------------------------
\* C27 as stated: a wall hit while not powered sets current_speed to
\* max(base_speed * 3, 0.9 * old), old being the speed Player.update left,
\* and the new speed is never greater than old.
C27_NonPoweredHit ==
    Frame /\ ~last.full /\ last.accel_speed * 10 < max_speed * 3
C27_Floor == 3 * base_speed
----------------------------------------------------------------------------
(* tet_game.py: the falling-block game.  tet_game is its App object.  The  *)
(* board self.lbox is a list of row + 1 references to row lists: lbox[r]   *)
(* is the name of the list that is row r - 1, and rows maps the names to   *)
(* the lists.  Rows, columns, bx, by and set are 0-based as in the source. *)

row == 23
clmn == 14
distinit == 20
tinit == 0
linit == 5

\* sign(x), lines 5-6
sign(x) == IF x > 0 THEN 1 ELSE IF x < 0 THEN -1 ELSE 0

\* self.l, lines 54-61: colour, number of rotations, size, and the patterns
l ==
 << [color |-> 2, rotations |-> 4, size |-> 3,
     patterns |-> << <<<<0, 0, 1>>, <<1, 1, 1>>, <<0, 0, 0>>>>,
                   <<<<0, 1, 0>>, <<0, 1, 0>>, <<0, 1, 1>>>>,
                   <<<<0, 0, 0>>, <<1, 1, 1>>, <<1, 0, 0>>>>,
                   <<<<1, 1, 0>>, <<0, 1, 0>>, <<0, 1, 0>>>> >>],
    [color |-> 3, rotations |-> 4, size |-> 3,
     patterns |-> << <<<<1, 0, 0>>, <<1, 1, 1>>, <<0, 0, 0>>>>,
                   <<<<0, 1, 1>>, <<0, 1, 0>>, <<0, 1, 0>>>>,
                   <<<<0, 0, 0>>, <<1, 1, 1>>, <<0, 0, 1>>>>,
                   <<<<0, 1, 0>>, <<0, 1, 0>>, <<1, 1, 0>>>> >>],
    [color |-> 4, rotations |-> 4, size |-> 3,
     patterns |-> << <<<<0, 1, 0>>, <<1, 1, 1>>, <<0, 0, 0>>>>,
                   <<<<0, 1, 0>>, <<0, 1, 1>>, <<0, 1, 0>>>>,
                   <<<<0, 0, 0>>, <<1, 1, 1>>, <<0, 1, 0>>>>,
                   <<<<0, 1, 0>>, <<1, 1, 0>>, <<0, 1, 0>>>> >>],
    [color |-> 5, rotations |-> 2, size |-> 4,
     patterns |-> << <<<<0, 0, 0, 0>>, <<1, 1, 1, 1>>, <<0, 0, 0, 0>>, <<0, 0, 0, 0>>>>,
                   <<<<0, 1, 0, 0>>, <<0, 1, 0, 0>>, <<0, 1, 0, 0>>, <<0, 1, 0, 0>>>> >>],
    [color |-> 6, rotations |-> 2, size |-> 3,
     patterns |-> << <<<<0, 0, 0>>, <<1, 1, 0>>, <<0, 1, 1>>>>,
                   <<<<0, 1, 0>>, <<1, 1, 0>>, <<1, 0, 0>>>> >>],
    [color |-> 7, rotations |-> 2, size |-> 3,
     patterns |-> << <<<<0, 0, 0>>, <<0, 1, 1>>, <<1, 1, 0>>>>,
                   <<<<0, 1, 0>>, <<0, 1, 1>>, <<0, 0, 1>>>> >>],
    [color |-> 8, rotations |-> 1, size |-> 2,
     patterns |-> << <<<<1, 1>>, <<1, 1>>>> >>] >>

\* the draws of px.rndi(0, 6)
rndi == 0..6

\* Python's list index k into a list of length n as a 1-based position; 0
\* stands for IndexError
PyIndex(k, n) ==
    IF k >= 0 /\ k < n THEN k + 1
    ELSE IF k < 0 /\ k >= -n THEN k + n + 1
    ELSE 0

\* the cells (j, i) of the piece's pattern that are "1", in the order the
\* loops of chkbox and lockbox visit them
PieceCells(typ, set) ==
    LET size == l[typ + 1].size
        pattern == l[typ + 1].patterns[set + 1]
        all == [k \in 1..(size * size) |-> <<(k - 1) \div size, (k - 1) % size>>]
        On(c) == pattern[c[1] + 1][c[2] + 1] = 1
    IN  SelectSeq(all, On)

\* the board as rows of cells
Board(t) == [r \in 1..(row + 1) |-> t.rows[t.lbox[r]]]

\* chkbox from the k-th cell on: "ok" for True, "blocked" for False, "error"
\* if an index is out of range
RECURSIVE chkbox_from(_, _, _)
chkbox_from(t, cells, k) ==
    IF k > Len(cells) THEN "ok"
    ELSE LET r == PyIndex(t.by + cells[k][1], row + 1)
             c == PyIndex(t.bx + cells[k][2], clmn)
         IN  IF r = 0 \/ c = 0 THEN "error"
             ELSE IF t.rows[t.lbox[r]][c] >= 1 THEN "blocked"
             ELSE chkbox_from(t, cells, k + 1)

\* faulty variant of chkbox: the walls and the floor do not stop a piece
chkbox_ignoring_walls(t) ==
    LET cells == PieceCells(t.typ, t.set)
        hit(k) == LET r == PyIndex(t.by + cells[k][1], row + 1)
                      c == PyIndex(t.bx + cells[k][2], clmn)
                  IN  r # 0 /\ c # 0 /\ t.rows[t.lbox[r]][c] >= 2
    IN  IF \E k \in DOMAIN cells : hit(k) THEN "blocked" ELSE "ok"

\* chkbox, lines 153-159
chkbox(t) == chkbox_from(t, PieceCells(t.typ, t.set), 1)

\* an IndexError ends the update call and the program
crash(t) == [t EXCEPT !.crashed = TRUE]

\* gameover, lines 149-150; frozen keeps what the board and the counters
\* were when the flag was first set
gameover(t) ==
    [t EXCEPT !.gmovflg = 1,
              !.frozen = IF @ = <<>>
                         THEN <<[board |-> Board(t), score |-> t.score,
                                 linecnt |-> t.linecnt, blkcnt |-> t.blkcnt]>>
                         ELSE @]

\* newblk, lines 139-146, with the draw r of px.rndi
newblk(t, r) ==
    LET t1 == [t EXCEPT !.typ = r, !.set = 0, !.bx = linit, !.by = tinit,
                        !.blkcnt = @ + 1]
        fits == chkbox(t1)
        t2 == IF fits = "blocked" THEN gameover(t1) ELSE t1
    IN  IF fits = "error" THEN crash(t1)
        ELSE [t2 EXCEPT !.dist = Max(1, distinit - t2.blkcnt \div 10)]

\* the row [0, 1, 0, ..., 0, 1, 0] of line 131
empty_row == [c \in 1..clmn |-> IF c = 2 \/ c = clmn - 1 THEN 1 ELSE 0]

\* line 122 for row j: the number of occupied cells among columns 2..clmn-3
filled(cells) ==
    Cardinality({ i \in 2..(clmn - 3) : sign(cells[i + 1]) = 1 })
    - Cardinality({ i \in 2..(clmn - 3) : sign(cells[i + 1]) = -1 })

\* faulty variant of shift_rows: the loop runs upward from row 1, so every
\* row down to j becomes the list that was row 0
shift_rows_upward(lbox, j) ==
    [r \in 1..(row + 1) |-> IF r - 1 >= 1 /\ r - 1 <= j THEN lbox[1] ELSE lbox[r]]

\* lines 129-130: for i = j, j-1, ..., 1 row i becomes the list that is row
\* i - 1
shift_rows(lbox, j) ==
    [r \in 1..(row + 1) |-> IF r - 1 >= 1 /\ r - 1 <= j THEN lbox[r - 1] ELSE lbox[r]]

\* a name no row of lbox other than row 0 refers to, for the list line 131
\* creates
fresh_row(lbox) ==
    CHOOSE n \in 1..(row + 1) :
       /\ \A r \in 2..(row + 1) : lbox[r] # n
       /\ \A m \in 1..(n - 1) : \E r \in 2..(row + 1) : lbox[r] = m

\* the loop of lines 125-131 from row j on; lll are the counts of lines
\* 119-123 and sc the rows removed so far
RECURSIVE chkline_from(_, _, _, _)
chkline_from(t, lll, j, sc) ==
    IF j >= row THEN [t EXCEPT !.k = sc]
    ELSE IF lll[j + 1] = 10
    THEN LET shifted == shift_rows(t.lbox, j)
             n == fresh_row(shifted)
             t1 == [t EXCEPT !.linecnt = @ + 1,
                             !.lbox = [shifted EXCEPT ![1] = n],
                             !.rows = [m \in DOMAIN t.rows |->
                                          IF m = n THEN empty_row ELSE t.rows[m]]]
         IN  chkline_from(t1, lll, j + 1, sc + 1)
    ELSE chkline_from(t, lll, j + 1, sc)

\* chkline, lines 116-136; pre, score0 and linecnt0 keep what the board and
\* the counters were when it began
chkline(t, r) ==
    LET t0 == [t EXCEPT !.pre = Board(t), !.score0 = t.score,
                        !.linecnt0 = t.linecnt]
        lll == [j \in 1..row |-> filled(t.rows[t.lbox[j]])]
        t1 == chkline_from(t0, lll, 0, 0)
        t2 == IF t1.k > 0 THEN [t1 EXCEPT !.score = @ + 10 * 2 ^ t1.k] ELSE t1
    IN  newblk(t2, r)

\* the writes of lines 109-112 from the k-th cell on; over counts the cells
\* written that were not 0
RECURSIVE lockbox_from(_, _, _)
lockbox_from(t, cells, k) ==
    IF k > Len(cells) THEN t
    ELSE LET r == PyIndex(t.by + cells[k][1], row + 1)
             c == PyIndex(t.bx + cells[k][2], clmn)
             n == t.lbox[r]
         IN  IF r = 0 \/ c = 0 THEN crash(t)
             ELSE lockbox_from(
                    [t EXCEPT !.over = IF t.rows[n][c] # 0 THEN @ + 1 ELSE @,
                              !.rows = [m \in DOMAIN t.rows |->
                                  IF m = n
                                  THEN [i \in 1..clmn |->
                                          IF i = c THEN l[t.typ + 1].color
                                          ELSE t.rows[m][i]]
                                  ELSE t.rows[m]]],
                    cells, k + 1)

\* lockbox, lines 108-113
lockbox(t, r) ==
    LET t1 == lockbox_from([t EXCEPT !.locks = @ + 1],
                           PieceCells(t.typ, t.set), 1)
    IN  IF t1.crashed THEN t1 ELSE chkline(t1, r)

\* blkdrop, lines 100-105
blkdrop(t, r) ==
    LET t1 == [t EXCEPT !.by = @ + 1]
        fits == chkbox(t1)
    IN  IF fits = "error" THEN crash(t1)
        ELSE IF fits = "blocked"
             THEN lockbox([t EXCEPT !.undone = @ \cup {"drop"}], r)
        ELSE t1

\* gameinit, lines 74-97, with the draw r of px.rndi
gameinit(r) ==
    [running |-> TRUE, crashed |-> FALSE,
     dist |-> distinit, score |-> 0, linecnt |-> 0, blkcnt |-> 1, mh |-> 0,
     gmovflg |-> 0, bx |-> linit, by |-> tinit, set |-> 0, typ |-> r,
     lbox |-> [j \in 1..(row + 1) |-> j],
     rows |-> [j \in 1..(row + 1) |->
                 [c \in 1..clmn |->
                    IF j <= row
                    THEN IF c = 2 \/ c = clmn - 1 THEN 1 ELSE 0
                    ELSE IF c >= 2 /\ c <= clmn - 1 THEN 1 ELSE 0]],
     calls |-> 0, over |-> 0, locks |-> 0, k |-> 0, pre |-> <<>>,
     score0 |-> 0, linecnt0 |-> 0, frozen |-> <<>>, retried |-> FALSE,
     undone |-> {}]

\* a shift of lines 172-175 and 179-185
shift(t, d) ==
    LET t1 == [t EXCEPT !.bx = @ + d]
        fits == chkbox(t1)
    IN  IF fits = "error" THEN crash(t1)
        ELSE IF fits = "blocked" THEN [t EXCEPT !.undone = @ \cup {"shift"}]
        ELSE t1

\* the rotation of lines 194-197
rotate(t) ==
    LET t1 == [t EXCEPT !.set = (@ + 1) % l[t.typ + 1].rotations]
        fits == chkbox(t1)
    IN  IF fits = "error" THEN crash(t1)
        ELSE IF fits = "blocked" THEN [t EXCEPT !.undone = @ \cup {"rotation"}]
        ELSE t1

\* update with gmovflg = 0, lines 164-197.  in.due tells whether the clock
\* has reached the time of the next drop (line 165), r1 and r2 are the draws
\* of px.rndi for the pieces the call may spawn.
TetPlay(t, in, r1, r2) ==
    LET a == IF in.due THEN blkdrop(t, r1) ELSE t
        mh == -sign(in.wheel)
        b == IF a.crashed THEN a
             ELSE LET a1 == [a EXCEPT !.mh = mh]
                  IN  IF mh # 0 THEN shift(a1, mh)
                      ELSE IF in.left THEN shift(a1, -1)
                      ELSE IF in.right THEN shift(a1, 1)
                      ELSE IF in.down THEN blkdrop(a1, r2)
                      ELSE a1
    IN  IF b.crashed \/ ~(in.click \/ in.turn) THEN b ELSE rotate(b)

\* The inputs of an update call, as App.update reads them: the clock
\* (line 165), the mouse wheel, the keys and the buttons.
NoTetInput ==
    [due |-> FALSE, wheel |-> 0, left |-> FALSE, right |-> FALSE,
     down |-> FALSE, click |-> FALSE, turn |-> FALSE, retry |-> FALSE]
tet_inputs ==
    { NoTetInput,
      [NoTetInput EXCEPT !.due = TRUE],
      [NoTetInput EXCEPT !.down = TRUE],
      [NoTetInput EXCEPT !.due = TRUE, !.down = TRUE],
      [NoTetInput EXCEPT !.left = TRUE],
      [NoTetInput EXCEPT !.right = TRUE, !.turn = TRUE],
      [NoTetInput EXCEPT !.wheel = 1],
      [NoTetInput EXCEPT !.click = TRUE],
      [NoTetInput EXCEPT !.retry = TRUE] }

\* the draws of px.rndi(0, 6) that are followed: L, I and O
tet_draws == {0, 3, 6}

MaxTetCalls == 3

\* Games in progress, each reached by playing the program from gameinit.
\* rows 21 and 22 lack column 11 only; an upright I two rows above its rest in column 11
tet_two_rows ==
    [gameinit(3) EXCEPT
       !.bx = 10, !.by = 18, !.set = 1, !.score = 0, !.linecnt = 0,
       !.blkcnt = 6, !.dist = 20,
       !.rows = [j \in 1..(row + 1) |->
            CASE j \in 20..21 -> <<0, 1, 0, 0, 0, 0, 0, 0, 0, 0, 5, 0, 1, 0>>
                 [] j \in 22..23 -> <<0, 1, 8, 8, 8, 8, 8, 8, 8, 8, 5, 0, 1, 0>>
                 [] OTHER -> gameinit(0).rows[j]]]

\* ten O pieces stacked in columns 5 and 6, the eleventh at the top
tet_stack ==
    [gameinit(6) EXCEPT
       !.bx = 5, !.by = 0, !.set = 0, !.score = 0, !.linecnt = 0,
       !.blkcnt = 11, !.dist = 19,
       !.rows = [j \in 1..(row + 1) |->
            CASE j \in 4..23 -> <<0, 1, 0, 0, 0, 8, 8, 0, 0, 0, 0, 0, 1, 0>>
                 [] OTHER -> gameinit(0).rows[j]]]

\* the games in progress: the two above, a new L against the left wall, an
\* upright I against the right wall, and a flat I resting on the floor
tet_snapshots ==
    { tet_two_rows, tet_stack,
      [gameinit(0) EXCEPT !.bx = 2],
      [gameinit(3) EXCEPT !.bx = 10, !.set = 1],
      [gameinit(3) EXCEPT !.by = 21] }

\* App.__init__ of tet_game.py, or a game in progress
TetInit ==
    /\ tet_game \in { gameinit(r) : r \in tet_draws } \cup tet_snapshots
    /\ tet_gameB = NoGame

\* the App of tet_game.py at the start of an update call
TetCall ==
    [tet_game EXCEPT !.calls = @ + 1, !.over = 0, !.locks = 0, !.k = 0,
                     !.pre = <<>>, !.score0 = 0, !.linecnt0 = 0,
                     !.retried = FALSE, !.undone = {}]

\* update, lines 162-197: a call while the game runs
TetUpdate ==
    /\ tet_game.running /\ ~tet_game.crashed
    /\ tet_game.gmovflg = 0
    /\ tet_game.calls < MaxTetCalls
    /\ \E in \in tet_inputs, r1 \in tet_draws, r2 \in tet_draws :
         tet_game' = TetPlay(TetCall, in, r1, r2)
    /\ UNCHANGED <<map_data, player, enemies, particles, stage_clear_timer,
                   proliferation_timer, frames, last, probe, touch_controller,
                   tet_gameB>>

\* update, lines 198-201: a call after the game is over
TetUpdateOver ==
    /\ tet_game.running /\ ~tet_game.crashed
    /\ tet_game.gmovflg # 0
    /\ tet_game.calls < MaxTetCalls + 1
    /\ \E in \in tet_inputs, r \in tet_draws :
         tet_game' = IF in.click \/ in.retry
                     THEN [gameinit(r) EXCEPT !.calls = TetCall.calls,
                                              !.retried = TRUE]
                     ELSE TetCall
    /\ UNCHANGED <<map_data, player, enemies, particles, stage_clear_timer,
                   proliferation_timer, frames, last, probe, touch_controller,
                   tet_gameB>>

----------------------------------------------------------------------------
(* tet_gameB.py: the falling-block game with four kana-shaped blocks.      *)
(* tet_gameB is its App object.  board[gy + 1][gx + 1] is 0 for None and   *)
(* the block_id of the cell's record otherwise; the record's char_type and *)
(* color are those of that block in settled_blocks.  The velocities and    *)
(* colours of the explosion's particles are left out.                      *)

PLAY_WIDTH == 100
PLAY_HEIGHT == 120

\* lines 6-79, in the order of the dictionary: TE, TO, RI, SU
KANA_BLOCKS ==
 << \* TE
    << <<0, 0, 0, 0, 0, 0, 0, 0, 0, 0, 0, 0, 0, 0, 0>>,
       <<0, 0, 1, 1, 1, 1, 1, 1, 1, 1, 1, 1, 1, 0, 0>>,
       <<0, 0, 1, 1, 1, 1, 1, 1, 1, 1, 1, 1, 1, 0, 0>>,
       <<0, 0, 0, 0, 0, 0, 0, 0, 0, 0, 0, 0, 0, 0, 0>>,
       <<0, 0, 0, 0, 0, 0, 0, 0, 0, 0, 0, 0, 0, 0, 0>>,
       <<0, 0, 0, 0, 0, 0, 0, 0, 0, 0, 0, 0, 0, 0, 0>>,
       <<1, 1, 1, 1, 1, 1, 1, 1, 1, 1, 1, 1, 1, 1, 1>>,
       <<1, 1, 1, 1, 1, 1, 1, 1, 1, 1, 1, 1, 1, 1, 1>>,
       <<0, 0, 0, 0, 0, 0, 1, 1, 1, 0, 0, 0, 0, 0, 0>>,
       <<0, 0, 0, 0, 0, 0, 1, 1, 1, 0, 0, 0, 0, 0, 0>>,
       <<0, 0, 0, 0, 0, 0, 1, 1, 1, 0, 0, 0, 0, 0, 0>>,
       <<0, 0, 0, 0, 0, 1, 1, 1, 1, 0, 0, 0, 0, 0, 0>>,
       <<0, 0, 0, 0, 1, 1, 1, 1, 0, 0, 0, 0, 0, 0, 0>>,
       <<0, 0, 0, 1, 1, 1, 1, 0, 0, 0, 0, 0, 0, 0, 0>>,
       <<0, 0, 0, 1, 1, 1, 0, 0, 0, 0, 0, 0, 0, 0, 0>>,
       <<0, 0, 0, 0, 0, 0, 0, 0, 0, 0, 0, 0, 0, 0, 0>> >>,
    \* TO
    << <<0, 0, 0, 0, 0, 0, 0, 0, 0, 0, 0, 0, 0, 0, 0>>,
       <<0, 0, 1, 1, 0, 0, 0, 0, 0, 0, 0, 0, 0, 0, 0>>,
       <<0, 0, 1, 1, 0, 0, 0, 0, 0, 0, 0, 0, 0, 0, 0>>,
       <<0, 0, 1, 1, 0, 0, 0, 0, 0, 0, 0, 0, 0, 0, 0>>,
       <<0, 0, 1, 1, 0, 0, 0, 0, 0, 0, 0, 0, 0, 0, 0>>,
       <<0, 0, 1, 1, 1, 1, 0, 0, 0, 0, 0, 0, 0, 0, 0>>,
       <<0, 0, 1, 1, 1, 1, 1, 1, 1, 0, 0, 0, 0, 0, 0>>,
       <<0, 0, 1, 1, 1, 1, 1, 1, 1, 1, 1, 0, 0, 0, 0>>,
       <<0, 0, 1, 1, 0, 0, 0, 1, 1, 1, 1, 1, 1, 0, 0>>,
       <<0, 0, 1, 1, 0, 0, 0, 0, 0, 1, 1, 1, 1, 0, 0>>,
       <<0, 0, 1, 1, 0, 0, 0, 0, 0, 0, 0, 0, 0, 0, 0>>,
       <<0, 0, 1, 1, 0, 0, 0, 0, 0, 0, 0, 0, 0, 0, 0>>,
       <<0, 0, 1, 1, 0, 0, 0, 0, 0, 0, 0, 0, 0, 0, 0>>,
       <<0, 0, 1, 1, 0, 0, 0, 0, 0, 0, 0, 0, 0, 0, 0>>,
       <<0, 0, 1, 1, 0, 0, 0, 0, 0, 0, 0, 0, 0, 0, 0>>,
       <<0, 0, 0, 0, 0, 0, 0, 0, 0, 0, 0, 0, 0, 0, 0>> >>,
    \* RI
    << <<0, 0, 0, 0, 0, 0, 0, 0, 0, 0, 0, 0, 0, 0, 0>>,
       <<0, 1, 1, 1, 0, 0, 0, 0, 0, 0, 1, 1, 1, 0, 0>>,
       <<0, 1, 1, 1, 0, 0, 0, 0, 0, 0, 1, 1, 1, 0, 0>>,
       <<0, 1, 1, 1, 0, 0, 0, 0, 0, 0, 1, 1, 1, 0, 0>>,
       <<0, 1, 1, 1, 0, 0, 0, 0, 0, 0, 1, 1, 1, 0, 0>>,
       <<0, 1, 1, 1, 0, 0, 0, 0, 0, 0, 1, 1, 1, 0, 0>>,
       <<0, 1, 1, 1, 0, 0, 0, 0, 0, 0, 1, 1, 1, 0, 0>>,
       <<0, 1, 1, 1, 0, 0, 0, 0, 0, 0, 1, 1, 1, 0, 0>>,
       <<0, 1, 1, 1, 0, 0, 0, 0, 0, 0, 1, 1, 1, 0, 0>>,
       <<0, 1, 1, 1, 0, 0, 0, 0, 0, 0, 1, 1, 1, 0, 0>>,
       <<0, 0, 0, 0, 0, 0, 0, 0, 0, 1, 1, 1, 1, 1, 0>>,
       <<0, 0, 0, 0, 0, 0, 0, 0, 0, 1, 1, 1, 0, 0, 0>>,
       <<0, 0, 0, 0, 0, 0, 1, 1, 1, 1, 1, 1, 0, 0, 0>>,
       <<0, 0, 0, 0, 1, 1, 1, 1, 1, 1, 1, 0, 0, 0, 0>>,
       <<0, 0, 0, 0, 1, 1, 1, 1, 0, 0, 0, 0, 0, 0, 0>>,
       <<0, 0, 0, 0, 0, 0, 0, 0, 0, 0, 0, 0, 0, 0, 0>> >>,
    \* SU
    << <<0, 0, 0, 0, 0, 0, 0, 0, 0, 0, 0, 0, 0, 0, 0>>,
       <<0, 0, 0, 0, 0, 0, 0, 0, 0, 0, 0, 0, 0, 0, 0>>,
       <<0, 1, 1, 1, 1, 1, 1, 1, 1, 1, 1, 1, 1, 1, 0>>,
       <<0, 1, 1, 1, 1, 1, 1, 1, 1, 1, 1, 1, 1, 1, 0>>,
       <<0, 0, 0, 0, 0, 0, 0, 0, 0, 0, 1, 1, 1, 0, 0>>,
       <<0, 0, 0, 0, 0, 0, 0, 0, 0, 1, 1, 1, 1, 1, 0>>,
       <<0, 0, 0, 0, 0, 0, 0, 0, 0, 1, 1, 1, 0, 0, 0>>,
       <<0, 0, 0, 0, 0, 0, 0, 0, 1, 1, 1, 1, 0, 0, 0>>,
       <<0, 0, 0, 0, 0, 0, 0, 1, 1, 1, 1, 0, 0, 0, 0>>,
       <<0, 0, 0, 0, 0, 0, 1, 1, 1, 1, 1, 1, 0, 0, 0>>,
       <<0, 0, 0, 0, 1, 1, 1, 1, 1, 1, 1, 1, 1, 0, 0>>,
       <<0, 0, 0, 1, 1, 1, 1, 0, 0, 1, 1, 1, 1, 1, 0>>,
       <<0, 1, 1, 1, 1, 1, 0, 0, 0, 0, 0, 1, 1, 1, 1>>,
       <<1, 1, 1, 1, 1, 0, 0, 0, 0, 0, 0, 0, 1, 1, 1>>,
       <<0, 1, 1, 0, 0, 0, 0, 0, 0, 0, 0, 0, 0, 1, 1>>,
       <<0, 0, 0, 0, 0, 0, 0, 0, 0, 0, 0, 0, 0, 0, 0>> >> >>

\* rotate_block, lines 109-111
rotate_block(grid) ==
    LET h == Len(grid)
        w == Len(grid[1])
    IN  [y \in 1..w |-> [x \in 1..h |-> grid[h - x + 1][y]]]

\* set_blocks, lines 113-123
blocks ==
    [b \in 1..4 |->
       LET r0 == KANA_BLOCKS[b]
           r1 == rotate_block(r0)
           r2 == rotate_block(r1)
           r3 == rotate_block(r2)
       IN  [char |-> <<"TE", "TO", "RI", "SU">>[b], color |-> b,
            rotations |-> <<r0, r1, r2, r3>>]]

\* the board cells (gx, gy) the active block covers
BlockCells(t) ==
    LET grid == blocks[t.block].rotations[t.set + 1]
    IN  { <<t.bx + x - 1, t.by + y - 1>> :
            <<x, y>> \in { c \in (1..Len(grid[1])) \X (1..Len(grid)) :
                             grid[c[2]][c[1]] = 1 } }

\* chkbox, lines 157-167
chkboxB(t) ==
    \A c \in BlockCells(t) :
       /\ ~(c[1] < 0 \/ c[1] >= PLAY_WIDTH \/ c[2] >= PLAY_HEIGHT)
       /\ ~(c[2] >= 0 /\ t.board[c[2] + 1][c[1] + 1] # 0)

empty_board == [y \in 1..PLAY_HEIGHT |-> [x \in 1..PLAY_WIDTH |-> 0]]

\* spawn_new_block, lines 147-155, with the draw b of random.choice
spawn_new_block(t, b) ==
    [t EXCEPT !.block = b, !.set = 0, !.block_id = t.block_counter,
              !.block_counter = @ + 1, !.char_type = blocks[b].char,
              !.bx = PLAY_WIDTH \div 2 - Len(blocks[b].rotations[1][1]) \div 2,
              !.by = 0]

\* reset, lines 125-137
reset(b) ==
    [spawn_new_block([running |-> TRUE, board |-> empty_board,
                      settled_blocks |-> <<>>, block_counter |-> 1,
                      tetris_chain_ids |-> {}, block |-> 0, set |-> 0,
                      block_id |-> 0, char_type |-> "", bx |-> 0, by |-> 0,
                      gmovflg |-> 0, score |-> 0, exploding |-> FALSE,
                      explode_phase |-> 0, explode_particles |-> {},
                      calls |-> 0, locked |-> FALSE,
                      undone |-> {}], b)
     EXCEPT !.gmovflg = 0]

\* faulty variant of reset_after_chain: the settled blocks stay
reset_after_chain_keeping_blocks(t, b) ==
    [spawn_new_block([t EXCEPT !.board = empty_board, !.block_counter = 1], b)
     EXCEPT !.gmovflg = 0]

\* reset_after_chain, lines 139-145
reset_after_chain(t, b) ==
    [spawn_new_block([t EXCEPT !.board = empty_board, !.settled_blocks = <<>>,
                               !.block_counter = 1], b)
     EXCEPT !.gmovflg = 0]

\* lines 170-188 of lock_block: the block is written to the board and
\* appended to settled_blocks
settle(t) ==
    LET positions == { c \in BlockCells(t) :
                         /\ 0 <= c[1] /\ c[1] < PLAY_WIDTH
                         /\ 0 <= c[2] /\ c[2] < PLAY_HEIGHT }
    IN  [t EXCEPT !.board = [y \in 1..PLAY_HEIGHT |-> [x \in 1..PLAY_WIDTH |->
                                IF <<x - 1, y - 1>> \in positions
                                THEN t.block_id ELSE t.board[y][x]]],
                  !.settled_blocks = Append(@, [block_id |-> t.block_id,
                                                char_type |-> t.char_type,
                                                positions |-> positions])]

\* faulty variant of neighbors: only the cells to the left and to the right
\* count
neighbors_sideways(settled, blk, char) ==
    { settled[n].block_id : n \in { m \in DOMAIN settled :
         /\ settled[m].char_type = char
         /\ \E p \in blk.positions, d \in {<<-1, 0>>, <<1, 0>>} :
               <<p[1] + d[1], p[2] + d[2]>> \in settled[m].positions } }

\* the ids of the settled blocks of kind char that have a cell next to a
\* cell of blk, as lines 214-219 collect them from position_map
neighbors(settled, blk, char) ==
  LET dirs == {<<-1, 0>>, <<1, 0>>, <<0, -1>>, <<0, 1>>}
  IN
    { settled[n].block_id : n \in { m \in DOMAIN settled :
         /\ settled[m].char_type = char
         /\ \E p \in blk.positions, d \in dirs :
               <<p[1] + d[1], p[2] + d[2]>> \in settled[m].positions } }

\* check_tetris_chain, lines 199-244: the chain ids after the call
check_tetris_chain(t) ==
    LET s == t.settled_blocks
        of(id) == s[CHOOSE n \in DOMAIN s : s[n].block_id = id]
        ids == { s[n].block_id : n \in DOMAIN s }
        chains ==
          { q \in (DOMAIN s) \X ids \X ids \X ids :
              /\ s[q[1]].char_type = "TE"
              /\ q[2] \in neighbors(s, s[q[1]], "TO")
              /\ q[3] \in neighbors(s, of(q[2]), "RI")
              /\ q[4] \in neighbors(s, of(q[3]), "SU") }
    IN  [t EXCEPT !.tetris_chain_ids =
            @ \cup UNION { {s[c[1]].block_id, c[2], c[3], c[4]} : c \in chains }]

\* start_explosion, lines 246-266
start_explosion(t) ==
    [t EXCEPT !.exploding = TRUE, !.explode_phase = 0,
              !.explode_particles =
                 { [x |-> x - 1, y |-> y - 1,
                    remove_phase |-> IF t.board[y][x] \in t.tetris_chain_ids
                                     THEN 2 ELSE 1] :
                   <<x, y>> \in { c \in (1..PLAY_WIDTH) \X (1..PLAY_HEIGHT) :
                                    t.board[c[2]][c[1]] # 0 } },
              !.board = empty_board]

\* lock_block, lines 169-197, with the draw b of random.choice
lock_block(t, b) ==
    LET t1 == check_tetris_chain(settle([t EXCEPT !.locked = TRUE]))
    IN  IF t1.tetris_chain_ids # {}
        THEN start_explosion(t1)
        ELSE LET t2 == spawn_new_block(t1, b)
             IN  IF ~chkboxB(t2) THEN [t2 EXCEPT !.gmovflg = 1] ELSE t2

\* lines 293-306 for one key: a shift by d columns, undone if chkbox fails
shiftB(t, d) ==
    LET t1 == [t EXCEPT !.bx = @ + d]
    IN  IF chkboxB(t1) THEN t1 ELSE [t EXCEPT !.undone = @ \cup {"shift"}]

\* lines 302-306
rotateB(t) ==
    LET t1 == [t EXCEPT !.set = (@ + 1) % 4]
    IN  IF chkboxB(t1) THEN t1 ELSE [t EXCEPT !.undone = @ \cup {"rotation"}]

\* update, lines 286-306: a call while the game runs and nothing explodes.
\* in.due tells whether the clock has passed the time of the next drop.
TetBPlay(t, in, b) ==
    LET dropped == [t EXCEPT !.by = @ + 1]
        a == IF in.down \/ in.due
             THEN IF chkboxB(dropped) THEN dropped
                  ELSE lock_block([t EXCEPT !.undone = @ \cup {"drop"}], b)
             ELSE t
        c == IF in.left THEN shiftB(a, -2) ELSE a
        d == IF in.right THEN shiftB(c, 2) ELSE c
    IN  IF in.space THEN rotateB(d) ELSE d

\* update, lines 274-284: a call during the explosion; in.explode_due tells
\* whether 0.2 s have passed since the last phase
TetBExplode(t, in, b) ==
    IF ~in.explode_due THEN t
    ELSE LET t1 == [t EXCEPT !.explode_phase = @ + 1]
         IN  IF t1.explode_phase > 2
             THEN reset_after_chain([t1 EXCEPT !.exploding = FALSE,
                                               !.score = @ + 100,
                                               !.tetris_chain_ids = {},
                                               !.explode_particles = {}], b)
             ELSE t1

\* The inputs of an update call of tet_gameB.py: the keys and the two clocks
NoTetBInput ==
    [due |-> FALSE, down |-> FALSE, left |-> FALSE, right |-> FALSE,
     space |-> FALSE, return |-> FALSE, explode_due |-> FALSE]
tetB_inputs ==
    { NoTetBInput,
      [NoTetBInput EXCEPT !.due = TRUE, !.explode_due = TRUE],
      [NoTetBInput EXCEPT !.down = TRUE, !.left = TRUE],
      [NoTetBInput EXCEPT !.left = TRUE],
      [NoTetBInput EXCEPT !.right = TRUE],
      [NoTetBInput EXCEPT !.space = TRUE],
      [NoTetBInput EXCEPT !.due = TRUE, !.space = TRUE],
      [NoTetBInput EXCEPT !.return = TRUE] }

\* the draws of random.choice(self.blocks)
kana_draws == 1..4

\* The game after the blocks of `placements` were locked one after the other,
\* each with the rotation and at the place given, `active` being the block
\* drawn after the last of them.
RECURSIVE playedB(_, _, _, _)
playedB(t, placements, n, active) ==
    IF n > Len(placements) THEN t
    ELSE playedB(lock_block([t EXCEPT !.set = placements[n].set,
                                      !.bx = placements[n].bx,
                                      !.by = placements[n].by],
                            IF n < Len(placements) THEN placements[n + 1].block
                            ELSE active),
                 placements, n + 1, active)

placed(b, set, bx, by) == [block |-> b, set |-> set, bx |-> bx, by |-> by]

\* Games in progress, each as the program reaches it from reset with the
\* blocks falling straight down.  TE, TO and RI lie on each other and SU is
\* one row above its rest on RI:
tetB_chain ==
    [playedB(reset(1), <<placed(1, 0, 43, 105), placed(2, 0, 43, 91),
                         placed(3, 0, 43, 81)>>, 1, 4)
     EXCEPT !.by = 66, !.locked = FALSE]
\* the explosion that follows, in its phase 2
tetB_exploding ==
    LET tick == [NoTetBInput EXCEPT !.explode_due = TRUE]
    IN  [TetBExplode(TetBExplode(lock_block([tetB_chain EXCEPT !.by = 67], 1),
                                 tick, 1), tick, 1)
         EXCEPT !.locked = FALSE]
\* seven TE on each other and the eighth one row above its rest
tetB_tower ==
    [playedB(reset(1), [n \in 1..7 |-> placed(1, 0, 43, 119 - 14 * n)], 1, 1)
     EXCEPT !.by = 6, !.locked = FALSE]
\* TE with a TO on it and a second TO beside it, RI on the second TO and
\* next to the first, and SU one row above its rest on RI: the lock of SU
\* finds two chains
tetB_two_chains ==
    [playedB(reset(1), <<placed(1, 0, 43, 105), placed(2, 0, 43, 91),
                         placed(2, 0, 31, 101), placed(3, 0, 31, 91)>>, 1, 4)
     EXCEPT !.bx = 27, !.by = 76, !.locked = FALSE]
\* the games in progress: the four above; the explosion of the two chains
\* in its phase 2; a TO far from the stack of TE, TO and RI, with SU above
\* RI; TE and TO with RI above them; TE and RI with SU above them; a new TE
\* at the left edge, at the right edge, and one row above the floor
tetB_snapshots ==
    { tetB_chain, tetB_exploding, tetB_tower, tetB_two_chains,
      LET tick == [NoTetBInput EXCEPT !.explode_due = TRUE]
      IN  [TetBExplode(TetBExplode(
              lock_block([tetB_two_chains EXCEPT !.by = 77], 1), tick, 1),
              tick, 1)
           EXCEPT !.locked = FALSE],
      [playedB(reset(2), <<placed(2, 0, 3, 105), placed(1, 0, 43, 105),
                           placed(2, 0, 43, 91), placed(3, 0, 43, 81)>>, 1, 4)
       EXCEPT !.by = 66, !.locked = FALSE],
      [playedB(reset(1), <<placed(1, 0, 43, 105), placed(2, 0, 43, 91)>>, 1, 3)
       EXCEPT !.by = 80, !.locked = FALSE],
      [playedB(reset(1), <<placed(1, 0, 43, 105), placed(3, 0, 43, 91)>>, 1, 4)
       EXCEPT !.by = 76, !.locked = FALSE],
      [reset(1) EXCEPT !.bx = 1],
      [reset(1) EXCEPT !.bx = 85],
      [reset(1) EXCEPT !.by = 104] }

\* App.__init__ of tet_gameB.py, or a game in progress
TetBInit ==
    /\ tet_gameB \in { reset(b) : b \in kana_draws } \cup tetB_snapshots
    /\ tet_game = NoGame

\* the App of tet_gameB.py at the start of an update call
TetBCall ==
    [tet_gameB EXCEPT !.calls = @ + 1, !.locked = FALSE, !.undone = {}]

\* update, lines 286-306
TetBUpdate ==
    /\ tet_gameB.running
    /\ tet_gameB.gmovflg = 0 /\ ~tet_gameB.exploding
    /\ tet_gameB.calls < MaxTetCalls
    /\ \E in \in tetB_inputs, b \in kana_draws :
         tet_gameB' = TetBPlay(TetBCall, in, b)
    /\ UNCHANGED <<map_data, player, enemies, particles, stage_clear_timer,
                   proliferation_timer, frames, last, probe, touch_controller,
                   tet_game>>

\* update, lines 274-284
TetBUpdateExploding ==
    /\ tet_gameB.running
    /\ tet_gameB.gmovflg = 0 /\ tet_gameB.exploding
    /\ tet_gameB.calls < MaxTetCalls
    /\ \E in \in tetB_inputs, b \in kana_draws :
         tet_gameB' = TetBExplode(TetBCall, in, b)
    /\ UNCHANGED <<map_data, player, enemies, particles, stage_clear_timer,
                   proliferation_timer, frames, last, probe, touch_controller,
                   tet_game>>

\* update, lines 269-272
TetBUpdateOver ==
    /\ tet_gameB.running
    /\ tet_gameB.gmovflg # 0
    /\ tet_gameB.calls < MaxTetCalls + 1
    /\ \E in \in tetB_inputs, b \in kana_draws :
         tet_gameB' = IF in.return
                      THEN [reset(b) EXCEPT !.calls = TetBCall.calls]
                      ELSE TetBCall
    /\ UNCHANGED <<map_data, player, enemies, particles, stage_clear_timer,
                   proliferation_timer, frames, last, probe, touch_controller,
                   tet_game>>

\* either program runs, from its start or from a game in progress
TetNext ==
    TetUpdate \/ TetUpdateOver \/ TetBUpdate \/ TetBUpdateExploding
       \/ TetBUpdateOver

InitTet == map_data = <<>> /\ Idle /\ (TetInit \/ TetBInit)

SpecTet == InitTet /\ [][TetNext]_vars

----------------------------------------------------------------------------
\* C28: in tet_game.py and in tet_gameB.py a shift, a rotation or a drop
\* that chkbox rejects is undone, so that at the end of every update call
\* after which the game is not over the active piece lies on empty cells
\* inside the playfield: in tet_game.py in columns 2..11 and rows 0..22 with
\* 0 <= set < the piece's number of rotations and with no IndexError raised,
\* in tet_gameB.py with 0 <= x < PLAY_WIDTH and y < PLAY_HEIGHT.
C28_PieceInField ==
    /\ tet_game.running =>
         /\ ~tet_game.crashed
         /\ tet_game.gmovflg = 0 =>
              /\ 0 <= tet_game.set
              /\ tet_game.set < l[tet_game.typ + 1].rotations
              /\ LET cells == PieceCells(tet_game.typ, tet_game.set)
                 IN  \A n \in DOMAIN cells :
                        LET j == tet_game.by + cells[n][1]
                            i == tet_game.bx + cells[n][2]
                        IN  /\ 2 <= i /\ i <= 11
                            /\ 0 <= j /\ j <= 22
                            /\ Board(tet_game)[j + 1][i + 1] = 0
    /\ tet_gameB.running /\ tet_gameB.gmovflg = 0 =>
         /\ tet_gameB.set \in 0..3
         /\ \A c \in BlockCells(tet_gameB) :
               /\ 0 <= c[1] /\ c[1] < PLAY_WIDTH
               /\ 0 <= c[2] /\ c[2] < PLAY_HEIGHT
               /\ tet_gameB.board[c[2] + 1][c[1] + 1] = 0
\* an update call of tet_game.py has undone a shift and a rotation of a piece
\* that stands at a wall, and the game goes on
C28_Witness ==
    /\ tet_game.running
    /\ tet_game.calls > 0
    /\ tet_game.gmovflg = 0
    /\ {"shift", "rotation"} \subseteq tet_game.undone

----------------------------------------------------------------------------
\* C29: after a lock in tet_game.py the rows 0..22 of the board are as many
\* empty walled rows as the lock's piece completed rows, followed by the
\* rows that were not complete, in their order; the floor row is as it was;
\* no row is complete; no two rows of the board are the same list; and with
\* k rows removed linecnt has grown by k and score by 10 * 2^k for k >= 1 and
\* by nothing for k = 0.
C29_Complete(cells) == \A i \in 2..11 : cells[i + 1] # 0
C29_Incomplete(cells) == ~C29_Complete(cells)
C29_EmptyRow == <<0, 1, 0, 0, 0, 0, 0, 0, 0, 0, 0, 0, 1, 0>>
C29_LineClear ==
    tet_game.running =>
      /\ \A a, b \in 1..(row + 1) : a # b => tet_game.lbox[a] # tet_game.lbox[b]
      /\ tet_game.locks > 0 /\ ~tet_game.crashed =>
           LET pre == tet_game.pre
               post == Board(tet_game)
               kept == SelectSeq(SubSeq(pre, 1, 23), C29_Incomplete)
               k == 23 - Len(kept)
           IN  /\ tet_game.k = k
               /\ SubSeq(post, 1, 23) = [i \in 1..k |-> C29_EmptyRow] \o kept
               /\ post[24] = pre[24]
               /\ \A j \in 1..23 : C29_Incomplete(post[j])
               /\ tet_game.linecnt = tet_game.linecnt0 + k
               /\ tet_game.score = tet_game.score0
                                     + (IF k >= 1 THEN 10 * 2 ^ k ELSE 0)
\* a lock completed two rows: they are gone, what lay above them has come
\* down to row 22, linecnt has grown by 2 and score by 40
C29_Witness ==
    /\ tet_game.running
    /\ tet_game.locks = 1
    /\ tet_game.k = 2
    /\ \E i \in 2..11 : Board(tet_game)[23][i + 1] # 0
    /\ tet_game.linecnt = tet_game.linecnt0 + 2
    /\ tet_game.score = tet_game.score0 + 40

----------------------------------------------------------------------------
\* C30 as stated: in tet_game.py every cell lockbox writes was 0 before the
\* write, and from the moment gmovflg is set the board, score, linecnt and
\* blkcnt stay as they were at that moment, in the same update call and in
\* later ones, until a retry input runs gameinit, which restores the state
\* of a new game.
C30_FrozenWhenOver ==
    tet_game.running /\ ~tet_game.crashed =>
      /\ tet_game.over = 0
      /\ tet_game.gmovflg = 1 =>
           /\ tet_game.frozen # <<>>
           /\ Board(tet_game) = tet_game.frozen[1].board
           /\ tet_game.score = tet_game.frozen[1].score
           /\ tet_game.linecnt = tet_game.frozen[1].linecnt
           /\ tet_game.blkcnt = tet_game.frozen[1].blkcnt
      /\ tet_game.retried =>
           \E r \in 0..6 :
              tet_game = [gameinit(r) EXCEPT !.calls = tet_game.calls,
                                             !.retried = TRUE]

----------------------------------------------------------------------------
\* C31: in tet_gameB.py, between update calls exploding is true iff
\* tetris_chain_ids is not empty.  The call in which lock_block finds a
\* chain starts the explosion with the locked block kept as the active one:
\* no block is spawned.  A call made while exploding moves, turns, drops and
\* locks nothing: it leaves the game as it is or raises explode_phase by
\* one, and when explode_phase passes 2 it ends the explosion with score
\* raised by 100, whatever the number of chains, tetris_chain_ids, the
\* particles, the board and settled_blocks empty, and block 1 spawned from a
\* restarted block_counter with gmovflg 0.  No other call raises score.
C31_Explosion ==
    /\ [](tet_gameB.running =>
            (tet_gameB.exploding <=> tet_gameB.tetris_chain_ids # {}))
    /\ [][tet_gameB.running /\ tet_gameB'.running =>
          LET old == tet_gameB
              new == tet_gameB'
              idle == [old EXCEPT !.calls = @ + 1, !.locked = FALSE,
                                  !.undone = {}]
          IN  /\ ~old.exploding /\ new.exploding =>
                   /\ new.locked
                   /\ new.block_id = old.block_id
                   /\ new.block = old.block
                   /\ new.block_counter = old.block_counter
                   /\ Len(new.settled_blocks) = Len(old.settled_blocks) + 1
                   /\ new.explode_phase = 0
                   /\ new.score = old.score
                   /\ new.gmovflg = 0
              /\ ~old.exploding => new.score \in {old.score, 0}
              /\ old.exploding =>
                   \/ new = idle
                   \/ /\ old.explode_phase < 2
                      /\ new = [idle EXCEPT !.explode_phase = @ + 1]
                   \/ /\ old.explode_phase = 2
                      /\ \E b \in 1..4 :
                           new = [idle EXCEPT
                                    !.explode_phase = 3,
                                    !.exploding = FALSE,
                                    !.score = old.score + 100,
                                    !.tetris_chain_ids = {},
                                    !.explode_particles = {},
                                    !.board = empty_board,
                                    !.settled_blocks = <<>>,
                                    !.block_counter = 2,
                                    !.block_id = 1,
                                    !.block = b,
                                    !.char_type = blocks[b].char,
                                    !.set = 0, !.bx = 43, !.by = 0,
                                    !.gmovflg = 0]]_vars
\* the explosion of a chain has ended: one update call has passed phase 2,
\* score is 100, nothing is settled and block 1 is at the top
C31_Witness ==
    /\ tet_gameB.running
    /\ tet_gameB.calls > 0
    /\ ~tet_gameB.exploding
    /\ tet_gameB.explode_phase = 3
    /\ tet_gameB.score = 100
    /\ tet_gameB.settled_blocks = <<>>
    /\ tet_gameB.block_id = 1 /\ tet_gameB.by = 0

----------------------------------------------------------------------------
\* C32: in tet_gameB.py, after check_tetris_chain has run on the settled
\* blocks, and until they are cleared, tetris_chain_ids holds exactly the ids
\* of the blocks of the quadruples (te, to, ri, su) of settled blocks of the
\* kinds TE, TO, RI and SU in which a cell of te is at distance 1 from a
\* cell of to, a cell of to from a cell of ri, and a cell of ri from a cell
\* of su; blocks of one kind or of a sequence that lacks a kind give no
\* chain.
C32_Touch(a, b) ==
    \E p \in a.positions, q \in b.positions :
       (p[1] - q[1]) * (p[1] - q[1]) + (p[2] - q[2]) * (p[2] - q[2]) = 1
C32_Quadruples(s) ==
    { q \in (DOMAIN s) \X (DOMAIN s) \X (DOMAIN s) \X (DOMAIN s) :
        /\ s[q[1]].char_type = "TE" /\ s[q[2]].char_type = "TO"
        /\ s[q[3]].char_type = "RI" /\ s[q[4]].char_type = "SU"
        /\ C32_Touch(s[q[1]], s[q[2]])
        /\ C32_Touch(s[q[2]], s[q[3]])
        /\ C32_Touch(s[q[3]], s[q[4]]) }
C32_ChainIds ==
    tet_gameB.running =>
      LET s == tet_gameB.settled_blocks
      IN  /\ tet_gameB.tetris_chain_ids =
               UNION { { s[q[n]].block_id : n \in 1..4 } :
                       q \in C32_Quadruples(s) }
          /\ { s[n].char_type : n \in DOMAIN s } # {"TE", "TO", "RI", "SU"}
                => tet_gameB.tetris_chain_ids = {}
\* the lock of SU on the stack of TE, TO and RI has found the chain of the
\* blocks 2 to 5; block 1, a TO that lies apart, is not in it
C32_Witness ==
    /\ tet_gameB.running
    /\ tet_gameB.locked
    /\ Len(tet_gameB.settled_blocks) = 5
    /\ tet_gameB.tetris_chain_ids = {2, 3, 4, 5}
====
